---- MODULE Spec2Model ----
(***************************************************************************)
(* Model of the update resolution pipeline of specer:                      *)
(*   server/main.py            process_text  (protocol parser, chunker,    *)
(*                             tiered section resolver)                    *)
(*   server/vector_store.py    VectorStore   (embedding index)             *)
(*   server/document_manager.py get_document / get_structure /             *)
(*                             save_document_simple                        *)
(*   server/ollama_client.py   get_embedding (embedding provider)          *)
(*                                                                         *)
(* A string is a sequence of symbols.  A symbol is one character ("#",     *)
(* " ", "\n", ":", ...) or an indivisible word ("Feature", "Roadmap", the  *)
(* protocol markers).  Every string operation of the code (split, join,    *)
(* strip, lstrip, lower, startswith, endswith, the regular expressions)    *)
(* is computed on these sequences the way Python computes it on            *)
(* characters.                                                             *)
(***************************************************************************)
EXTENDS Integers, Sequences, FiniteSets, TLC

(***************************************************************************)
(* Symbols                                                                 *)
(***************************************************************************)
NL == "\n"
SP == " "
HASH == "#"
SPEC_START == "<<<SPEC_START>>>"
SPEC_END == "<<<SPEC_END>>>"
\* the label literals: a word and the colon after it
TARGET_LABEL == <<"Target-Section", ":">>
SUMMARY_LABEL == <<"Change-Summary", ":">>

\* what \s and str.strip() treat as whitespace (of the symbols used here)
Whitespace == {SP, NL}

\* absent value (Python None) where a string is expected: a reserved symbol
\* that occurs in no input
None == <<"<None>">>

\* str.lower() on one symbol: the capitalised words of the model
LowerSym(c) ==
    CASE c = "Feature" -> "feature"
      [] c = "Milestone" -> "milestone"
      [] c = "Roadmap" -> "roadmap"
      [] c = "Integration" -> "integration"
      [] c = "Context" -> "context"
      [] c = "World" -> "world"
      [] c = "Introduction" -> "introduction"
      [] c = "Target-Section" -> "target-section"
      [] c = "Change-Summary" -> "change-summary"
      [] c = SPEC_START -> "<<<spec_start>>>"
      [] c = SPEC_END -> "<<<spec_end>>>"
      [] c = "A" -> "a"
      [] c = "B" -> "b"
      [] OTHER -> c

\* len() of one symbol in characters
SymLen(c) ==
    CASE c \in {"Feature", "feature", "Roadmap", "roadmap", "Context", "context"} -> 7
      [] c \in {"Milestone", "milestone"} -> 9
      [] c \in {"Integration", "integration"} -> 11
      [] c \in {"Introduction", "introduction"} -> 12
      [] c \in {"World", "world"} -> 5
      [] c \in {SPEC_START, "<<<spec_start>>>"} -> 16
      [] c \in {SPEC_END, "<<<spec_end>>>",
                "Target-Section", "target-section",
                "Change-Summary", "change-summary"} -> 14
      [] OTHER -> 1

(***************************************************************************)
(* Python string operations                                                *)
(***************************************************************************)
\* s[i:j] with 1-based inclusive bounds; empty when j < i
Slice(s, i, j) == IF j < i THEN <<>> ELSE SubSeq(s, i, j)

\* str.lower()
lower(s) == [i \in 1..Len(s) |-> LowerSym(s[i])]

\* str.startswith(p)
startswith(s, p) == Len(p) <= Len(s) /\ SubSeq(s, 1, Len(p)) = p

\* str.endswith(p)
endswith(s, p) == Len(p) <= Len(s) /\ SubSeq(s, Len(s) - Len(p) + 1, Len(s)) = p

\* number of leading symbols of s that belong to set
LeadingRun(s, set) ==
    IF \A i \in 1..Len(s) : s[i] \in set THEN Len(s)
    ELSE (CHOOSE i \in 1..Len(s) : s[i] \notin set /\ \A j \in 1..(i-1) : s[j] \in set) - 1

\* number of trailing symbols of s that belong to set
TrailingRun(s, set) ==
    IF \A i \in 1..Len(s) : s[i] \in set THEN Len(s)
    ELSE Len(s) - (CHOOSE i \in 1..Len(s) : s[i] \notin set /\ \A j \in (i+1)..Len(s) : s[j] \in set)

\* str.lstrip(chars)
lstrip(s, set) == Slice(s, LeadingRun(s, set) + 1, Len(s))

\* str.strip()
strip(s) ==
    IF \A i \in 1..Len(s) : s[i] \in Whitespace THEN <<>>
    ELSE Slice(s, LeadingRun(s, Whitespace) + 1, Len(s) - TrailingRun(s, Whitespace))

\* str.split('\n'): always at least one line
RECURSIVE split(_)
split(s) ==
    IF \A i \in 1..Len(s) : s[i] # NL THEN <<s>>
    ELSE LET k == CHOOSE i \in 1..Len(s) : s[i] = NL /\ \A j \in 1..(i-1) : s[j] # NL
         IN <<Slice(s, 1, k - 1)>> \o split(Slice(s, k + 1, Len(s)))

\* "\n".join(lines)
RECURSIVE join(_)
join(lines) ==
    IF Len(lines) = 0 THEN <<>>
    ELSE IF Len(lines) = 1 THEN lines[1]
    ELSE lines[1] \o <<NL>> \o join(Tail(lines))

Range(f) == {f[i] : i \in DOMAIN f}

\* Python truthiness of a str-or-None value: None and "" are false
Truthy(s) == s # None /\ s # <<>>

(***************************************************************************)
(* ProtocolParser: the regular expression of process_text, matched with   *)
(* re.finditer and re.DOTALL.  The pattern is, in order:                   *)
(*   START marker, whitespace (one or more), optional bullet and           *)
(*   whitespace, "Target-Section:", whitespace (greedy), group 1 (lazy,    *)
(*   any symbol), newline, whitespace, optional bullet and whitespace,     *)
(*   "Change-Summary:", whitespace (greedy), group 2 (lazy), newline,      *)
(*   whitespace (greedy), group 3 (lazy), END marker.                      *)
(* Leftmost match; a greedy run is tried longest first, a lazy group       *)
(* shortest first, as the backtracking engine does.                        *)
(***************************************************************************)
\* length of the whitespace run of s that starts at position p
WsRun(s, p) == LeadingRun(Slice(s, p, Len(s)), Whitespace)

\* symbol at position p, or None's symbol past the end
At(s, p) == IF p \in 1..Len(s) THEN s[p] ELSE "<None>"

\* position of the first <<<SPEC_END>>> at or after p, 0 if there is none
FirstEnd(s, p) ==
    IF \E k \in p..Len(s) : s[k] = SPEC_END
    THEN CHOOSE k \in p..Len(s) : s[k] = SPEC_END /\ \A j \in p..(k-1) : s[j] # SPEC_END
    ELSE 0

\* the literal lit is in s at position p
LiteralAt(s, p, lit) ==
    p >= 1 /\ p + Len(lit) - 1 <= Len(s) /\ SubSeq(s, p, p + Len(lit) - 1) = lit

\* after "Change-Summary:", p is the position that follows the label: the
\* starts of group 2 (after a whitespace run of any admissible length) from
\* which a newline followed, later, by an END marker can be found
SummaryStarts(s, p) ==
    {a \in p..(p+WsRun(s, p)) :
        \E b \in a..Len(s) : s[b] = NL /\ FirstEnd(s, b+1) > 0}

SummaryOk(s, p) == SummaryStarts(s, p) # {}

\* groups 2 and 3 and the position of the END marker: the longest whitespace
\* run that works, then the first newline, then the first END marker
SummaryMatch(s, p) ==
    LET a == CHOOSE x \in SummaryStarts(s, p) : \A y \in SummaryStarts(s, p) : y <= x
        b == CHOOSE x \in a..Len(s) : s[x] = NL /\ \A y \in a..(x-1) : s[y] # NL
        d == b + 1 + WsRun(s, b+1)
        e == FirstEnd(s, d)
    IN [g2 |-> Slice(s, a, b-1), g3 |-> Slice(s, d, e-1), end |-> e]

\* after the newline at position b: whitespace, optional bullet and
\* whitespace, then "Change-Summary:"; the position that follows the label,
\* 0 if the text there does not match
SummaryLabelAfter(s, b) ==
    LET d == b + 1 + WsRun(s, b+1)
        d2 == d + 1 + WsRun(s, d+1)
    IN IF LiteralAt(s, d, SUMMARY_LABEL) THEN d + Len(SUMMARY_LABEL)
       ELSE IF At(s, d) = "*" /\ LiteralAt(s, d2, SUMMARY_LABEL)
       THEN d2 + Len(SUMMARY_LABEL)
       ELSE 0

\* ends of group 1 that let the rest of the pattern match, for a start a
TargetEnds(s, a) ==
    {b \in a..Len(s) : s[b] = NL /\ SummaryLabelAfter(s, b) > 0
                                 /\ SummaryOk(s, SummaryLabelAfter(s, b))}

\* after "Target-Section:", t is the position that follows the label: the
\* starts of group 1 from which the rest of the pattern can match
TargetStarts(s, t) ==
    {a \in t..(t+WsRun(s, t)) : TargetEnds(s, a) # {}}

TargetOk(s, t) == TargetStarts(s, t) # {}

\* the groups of the match whose "Target-Section:" ends before position t
TargetMatch(s, t) ==
    LET a == CHOOSE x \in TargetStarts(s, t) : \A y \in TargetStarts(s, t) : y <= x
        b == CHOOSE x \in TargetEnds(s, a) : \A y \in TargetEnds(s, a) : x <= y
        m == SummaryMatch(s, SummaryLabelAfter(s, b))
    IN [g1 |-> Slice(s, a, b-1), g2 |-> m.g2, g3 |-> m.g3, end |-> m.end]

\* after the START marker at position i: whitespace (at least one), optional
\* bullet and whitespace, then "Target-Section:"; the position that follows
\* the label, 0 if the text there does not match
TargetLabelAfter(s, i) ==
    LET w == WsRun(s, i+1)
        d == i + 1 + w
        d2 == d + 1 + WsRun(s, d+1)
    IN IF w = 0 THEN 0
       ELSE IF LiteralAt(s, d, TARGET_LABEL) THEN d + Len(TARGET_LABEL)
       ELSE IF At(s, d) = "*" /\ LiteralAt(s, d2, TARGET_LABEL)
       THEN d2 + Len(TARGET_LABEL)
       ELSE 0

\* the pattern matches with its first symbol at position i
MatchesAt(s, i) ==
    /\ At(s, i) = SPEC_START
    /\ TargetLabelAfter(s, i) > 0
    /\ TargetOk(s, TargetLabelAfter(s, i))

\* list(re.finditer(pattern, text, re.DOTALL)) from position p on: the
\* groups of the non-overlapping matches, left to right
RECURSIVE finditer(_, _)
finditer(s, p) ==
    IF \A i \in p..Len(s) : ~MatchesAt(s, i) THEN <<>>
    ELSE LET i == CHOOSE x \in p..Len(s) : MatchesAt(s, x) /\ \A y \in p..(x-1) : ~MatchesAt(s, y)
             m == TargetMatch(s, TargetLabelAfter(s, i))
         IN <<[g1 |-> m.g1, g2 |-> m.g2, g3 |-> m.g3]>> \o finditer(s, m.end + 1)

(***************************************************************************)
(* HierarchicalChunker: the splitting loop of process_text                 *)
(***************************************************************************)
\* re.match(r'^(#+)\s', line): the number of leading hashes when at least one
\* hash is followed by a whitespace symbol, 0 when the line is no header
HeaderLevel(line) ==
    LET n == LeadingRun(line, {HASH})
    IN IF n >= 1 /\ At(line, n + 1) \in Whitespace THEN n ELSE 0

\* every header line splits a buffer that is not empty
ChunkStep_AlwaysSplit(st, line) ==
    LET level == HeaderLevel(line)
    IN IF level > 0 /\ st.current_chunk # <<>>
       THEN [chunks |-> Append(st.chunks, join(st.current_chunk)),
             current_chunk |-> <<line>>,
             current_header_level |-> level]
       ELSE [st EXCEPT !.current_chunk = Append(st.current_chunk, line),
                       !.current_header_level =
                           IF level > 0 /\ st.current_header_level = 0
                           THEN level ELSE st.current_header_level]

\* the header line at which the buffer is split is lost
ChunkStep_DropsSplitLine(st, line) ==
    LET level == HeaderLevel(line)
        should_split ==
            /\ st.current_chunk # <<>>
            /\ \/ st.current_header_level = 0
               \/ level <= st.current_header_level
    IN IF level > 0
       THEN IF should_split
            THEN [chunks |-> Append(st.chunks, join(st.current_chunk)),
                  current_chunk |-> <<>>,
                  current_header_level |-> level]
            ELSE [chunks |-> st.chunks,
                  current_chunk |-> Append(st.current_chunk, line),
                  current_header_level |->
                      IF st.current_header_level = 0 THEN level
                      ELSE st.current_header_level]
       ELSE [st EXCEPT !.current_chunk = Append(st.current_chunk, line)]

\* one iteration of "for line in lines" on the loop state
\* st = [chunks, current_chunk, current_header_level]; level 0 is None
ChunkStep(st, line) ==
    LET level == HeaderLevel(line)
        should_split ==
            /\ st.current_chunk # <<>>
            /\ \/ st.current_header_level = 0
               \/ level <= st.current_header_level
    IN IF level > 0
       THEN IF should_split
            THEN [chunks |-> Append(st.chunks, join(st.current_chunk)),
                  current_chunk |-> <<line>>,
                  current_header_level |-> level]
            ELSE [chunks |-> st.chunks,
                  current_chunk |-> Append(st.current_chunk, line),
                  current_header_level |->
                      IF st.current_header_level = 0 THEN level
                      ELSE st.current_header_level]
       ELSE [st EXCEPT !.current_chunk = Append(st.current_chunk, line)]

RECURSIVE ChunkLoop(_, _, _)
ChunkLoop(st, lines, i) ==
    IF i > Len(lines) THEN st
    ELSE ChunkLoop(ChunkStep(st, lines[i]), lines, i + 1)

\* the loop over the lines starts at the second line
SplitChunks_SkipFirstLine(raw_content) ==
    LET st == ChunkLoop([chunks |-> <<>>, current_chunk |-> <<>>,
                         current_header_level |-> 0], split(raw_content), 2)
        chunks == IF st.current_chunk # <<>>
                  THEN Append(st.chunks, join(st.current_chunk))
                  ELSE st.chunks
    IN IF chunks = <<>> /\ raw_content # <<>> THEN <<raw_content>> ELSE chunks

\* the chunks of one block body (raw_content, already stripped)
SplitChunks(raw_content) ==
    LET st == ChunkLoop([chunks |-> <<>>, current_chunk |-> <<>>,
                         current_header_level |-> 0], split(raw_content), 1)
        chunks == IF st.current_chunk # <<>>
                  THEN Append(st.chunks, join(st.current_chunk))
                  ELSE st.chunks
    IN IF chunks = <<>> /\ raw_content # <<>> THEN <<raw_content>> ELSE chunks

(***************************************************************************)
(* Document store: DocumentManager.get_structure                           *)
(***************************************************************************)
RECURSIVE SumLen(_)
SumLen(w) == IF w = <<>> THEN 0 ELSE SymLen(Head(w)) + SumLen(Tail(w))

\* len(stripped.split(' ')[0])
FirstWordLen(stripped) ==
    SumLen(Slice(stripped, 1, LeadingRun(stripped, {x \in Range(stripped) : x # SP})))

\* a deeper header stays in the section of its parent
StructureStep_Nested(st, line) ==
    LET stripped == strip(line)
        cur == st.current_section
    IN IF /\ startswith(stripped, <<HASH>>)
          /\ (cur.level = 0 \/ FirstWordLen(stripped) <= cur.level)
       THEN [structure |->
                 IF cur.content # <<>>
                 THEN Append(st.structure, [cur EXCEPT !.content = join(cur.content)])
                 ELSE st.structure,
             current_section |->
                 [title |-> strip(lstrip(stripped, {HASH})),
                  level |-> FirstWordLen(stripped),
                  content |-> <<line>>]]
       ELSE [st EXCEPT !.current_section.content = Append(cur.content, line)]

\* one iteration of the loop of get_structure on
\* st = [structure, current_section]; the content of the current section is
\* a list of lines
StructureStep(st, line) ==
    LET stripped == strip(line)
        cur == st.current_section
    IN IF startswith(stripped, <<HASH>>)
       THEN [structure |->
                 IF cur.content # <<>>
                 THEN Append(st.structure, [cur EXCEPT !.content = join(cur.content)])
                 ELSE st.structure,
             current_section |->
                 [title |-> strip(lstrip(stripped, {HASH})),
                  level |-> FirstWordLen(stripped),
                  content |-> <<line>>]]
       ELSE [st EXCEPT !.current_section.content = Append(cur.content, line)]

RECURSIVE StructureLoop(_, _, _)
StructureLoop(st, lines, i) ==
    IF i > Len(lines) THEN st
    ELSE StructureLoop(StructureStep(st, lines[i]), lines, i + 1)

\* get_structure on the content of the document: the flat list of sections
get_structure(content) ==
    IF content = <<>> THEN <<>>
    ELSE LET st == StructureLoop(
                 [structure |-> <<>>,
                  current_section |-> [title |-> <<"Introduction">>, level |-> 0,
                                       content |-> <<>>]],
                 split(content), 1)
             cur == st.current_section
         IN IF cur.content # <<>>
            THEN Append(st.structure, [cur EXCEPT !.content = join(cur.content)])
            ELSE st.structure

\* the dict keeps the value of the first insertion of a key
RECURSIVE TitleDict_KeepsFirst(_, _)
TitleDict_KeepsFirst(structure, d) ==
    IF structure = <<>> THEN d
    ELSE LET item == Head(structure)
             e == [title |-> item.title, content |-> item.content]
         IN TitleDict_KeepsFirst(Tail(structure),
                IF \E k \in 1..Len(d) : d[k].title = item.title
                THEN d
                ELSE Append(d, e))

\* {item['title']: item['content'] for item in current_structure}: a dict
\* keeps the position of the first insertion of a key and the value of the
\* last one.  The dict is a sequence of [title, content] in key order.
RECURSIVE TitleDict(_, _)
TitleDict(structure, d) ==
    IF structure = <<>> THEN d
    ELSE LET item == Head(structure)
             e == [title |-> item.title, content |-> item.content]
         IN TitleDict(Tail(structure),
                IF \E k \in 1..Len(d) : d[k].title = item.title
                THEN [k \in 1..Len(d) |-> IF d[k].title = item.title THEN e ELSE d[k]]
                ELSE Append(d, e))

\* existing_titles[title]
Lookup(d, title) == d[CHOOSE k \in 1..Len(d) : d[k].title = title].content

(***************************************************************************)
(* SectionResolver: tiers 1 to 3 of process_text                           *)
(***************************************************************************)
NEW_SECTION == <<"(New Section)">>
NO_MATCH == <<"(No matching section found. Will be added as new.)">>

\* chunk_header_title: the title of the first line when it starts with a
\* hash, else None
ChunkHeaderTitle(chunk) ==
    LET first_line == strip(split(chunk)[1])
    IN IF startswith(first_line, <<HASH>>)
       THEN strip(lstrip(first_line, {HASH}))
       ELSE None

\* the override for milestones only
ForceNewSectionTitle_MilestoneOnly(chunk, existing_titles) ==
    LET chunk_header_title == ChunkHeaderTitle(chunk)
    IN IF /\ Truthy(chunk_header_title)
          /\ \A k \in 1..Len(existing_titles) :
                 lower(existing_titles[k].title) # lower(chunk_header_title)
          /\ startswith(lower(chunk_header_title), <<"milestone">>)
       THEN chunk_header_title
       ELSE None

\* force_new_section_title (tier 1), None when the override does not apply
ForceNewSectionTitle(chunk, existing_titles) ==
    LET chunk_header_title == ChunkHeaderTitle(chunk)
        is_existing_header ==
            \E k \in 1..Len(existing_titles) :
                lower(existing_titles[k].title) = lower(chunk_header_title)
        lower_header == lower(chunk_header_title)
    IN IF /\ Truthy(chunk_header_title)
          /\ ~is_existing_header
          /\ \/ startswith(lower_header, <<"milestone">>)
             \/ startswith(lower_header, <<"feature">>)
       THEN chunk_header_title
       ELSE None

\* the loop with the exact comparison only
StructureScan_ExactOnly(norm_intent, existing_titles, k, best) ==
    IF \E j \in k..Len(existing_titles) : lower(existing_titles[j].title) = norm_intent
    THEN existing_titles[CHOOSE j \in k..Len(existing_titles) :
             /\ lower(existing_titles[j].title) = norm_intent
             /\ \A i \in k..(j-1) : lower(existing_titles[i].title) # norm_intent].title
    ELSE best

\* the loop over existing_titles.items() of tier 2 from entry k on, with the
\* candidate kept so far: an exact match ends the loop, a suffix match
\* replaces the candidate and the loop goes on
RECURSIVE StructureScan(_, _, _, _)
StructureScan(norm_intent, existing_titles, k, best) ==
    IF k > Len(existing_titles) THEN best
    ELSE LET title == existing_titles[k].title
             norm_title == lower(title)
         IN IF norm_intent = norm_title THEN title
            ELSE IF \/ endswith(norm_intent, <<":", SP>> \o norm_title)
                    \/ endswith(norm_intent, <<"-", ">", SP>> \o norm_title)
            THEN StructureScan(norm_intent, existing_titles, k + 1, title)
            ELSE StructureScan(norm_intent, existing_titles, k + 1, best)

\* best_structure_match (tier 2)
BestStructureMatch(target_section_intent, existing_titles) ==
    StructureScan(lower(target_section_intent), existing_titles, 1, None)

\* the check for milestones only
IsExplicitNew_MilestoneOnly(target_section_intent) ==
    \/ startswith(lower(target_section_intent), <<"milestone", ":">>)
    \/ startswith(lower(target_section_intent), <<"milestone", SP>>)

\* is_explicit_new (tier 3)
IsExplicitNew(target_section_intent) ==
    LET lower_intent == lower(target_section_intent)
    IN \/ startswith(lower_intent, <<"feature", ":">>)
       \/ startswith(lower_intent, <<"milestone", ":">>)
       \/ startswith(lower_intent, <<"feature", SP>>)
       \/ startswith(lower_intent, <<"milestone", SP>>)

\* the semantic search before the explicit-new check
ResolveStructural_NoTierThree(chunk, target_section_intent, existing_titles) ==
    LET force_new_section_title == ForceNewSectionTitle(chunk, existing_titles)
        best_structure_match == BestStructureMatch(target_section_intent, existing_titles)
    IN IF Truthy(force_new_section_title)
       THEN [tier |-> 1, section |-> force_new_section_title,
             original_text |-> NEW_SECTION]
       ELSE IF Truthy(best_structure_match)
       THEN [tier |-> 2, section |-> best_structure_match,
             original_text |-> Lookup(existing_titles, best_structure_match)]
       ELSE [tier |-> 4, section |-> None, original_text |-> None]

\* tiers 1 to 3 for one chunk: the tier that resolves it and the section
\* and original text it gives; tier 4 when the semantic search is needed
ResolveStructural(chunk, target_section_intent, existing_titles) ==
    LET force_new_section_title == ForceNewSectionTitle(chunk, existing_titles)
        best_structure_match == BestStructureMatch(target_section_intent, existing_titles)
    IN IF Truthy(force_new_section_title)
       THEN [tier |-> 1, section |-> force_new_section_title,
             original_text |-> NEW_SECTION]
       ELSE IF Truthy(best_structure_match)
       THEN [tier |-> 2, section |-> best_structure_match,
             original_text |-> Lookup(existing_titles, best_structure_match)]
       ELSE IF IsExplicitNew(target_section_intent)
       THEN [tier |-> 3, section |-> target_section_intent,
             original_text |-> NEW_SECTION]
       ELSE [tier |-> 4, section |-> None, original_text |-> None]

\* the target as the title, whatever the chunk starts with
UnmatchedTitle_TargetOnly(chunk, target_section_intent) == target_section_intent

\* the section title of a chunk for which the semantic search found nothing
UnmatchedTitle(chunk, target_section_intent) ==
    LET first_line == split(chunk)[1]
    IN IF startswith(first_line, <<HASH>>)
       THEN strip(lstrip(first_line, {HASH}))
       ELSE target_section_intent

(***************************************************************************)
(* EmbeddingIndex: VectorStore                                             *)
(***************************************************************************)
\* one iteration of the splitting loop of sync_document on
\* st = [chunks, current_chunk, current_header]
SyncStep(st, line) ==
    IF startswith(line, <<HASH>>)
    THEN [chunks |->
              IF st.current_chunk # <<>>
              THEN Append(st.chunks, [header |-> st.current_header,
                                      text |-> join(st.current_chunk)])
              ELSE st.chunks,
          current_header |-> strip(lstrip(line, {HASH})),
          current_chunk |-> <<line>>]
    ELSE [st EXCEPT !.current_chunk = Append(st.current_chunk, line)]

RECURSIVE SyncLoop(_, _, _)
SyncLoop(st, lines, i) ==
    IF i > Len(lines) THEN st
    ELSE SyncLoop(SyncStep(st, lines[i]), lines, i + 1)

\* the chunks sync_document derives from a non-empty document
SyncChunks(content) ==
    LET st == SyncLoop([chunks |-> <<>>, current_chunk |-> <<>>,
                        current_header |-> <<"Introduction">>], split(content), 1)
    IN IF st.current_chunk # <<>>
       THEN Append(st.chunks, [header |-> st.current_header,
                               text |-> join(st.current_chunk)])
       ELSE st.chunks

RECURSIVE Dot(_, _)
Dot(v1, v2) == IF v1 = <<>> THEN 0 ELSE Head(v1) * Head(v2) + Dot(Tail(v1), Tail(v2))

\* np.dot raises ValueError on 1-d arguments of different lengths
DotRaises(v1, v2) == Len(v1) # Len(v2)

\* cosine_similarity as an exact fraction that orders like the cosine:
\* sign(dot) * dot^2 / (|v1|^2 * |v2|^2); a zero norm gives 0
cosine_similarity(v1, v2) ==
    LET dotted == Dot(v1, v2)
        sq1 == Dot(v1, v1)
        sq2 == Dot(v2, v2)
    IN IF sq1 = 0 \/ sq2 = 0 THEN [num |-> 0, den |-> 1]
       ELSE [num |-> IF dotted < 0 THEN -(dotted * dotted) ELSE dotted * dotted,
             den |-> sq1 * sq2]

\* score > best_score on these fractions
ScoreGreater(a, b) == a.num * b.den > b.num * a.den

\* the scoring loop of find_best_match from item k on.  The result says
\* whether cosine_similarity raised and holds best_match, where found is
\* FALSE for best_match = None
RECURSIVE BestLoop(_, _, _, _, _)
BestLoop(query_vec, vectors, k, best_score, best_match) ==
    IF k > Len(vectors) THEN [raised |-> FALSE, best_match |-> best_match]
    ELSE IF DotRaises(query_vec, vectors[k].vector)
    THEN [raised |-> TRUE, best_match |-> best_match]
    ELSE LET score == cosine_similarity(query_vec, vectors[k].vector)
         IN IF ScoreGreater(score, best_score)
            THEN BestLoop(query_vec, vectors, k + 1, score,
                          [found |-> TRUE, item |-> vectors[k]])
            ELSE BestLoop(query_vec, vectors, k + 1, best_score, best_match)

NoItem == [found |-> FALSE, item |-> [header |-> None, text |-> None, vector |-> <<>>]]

\* best_score = -1, best_match = None, then the loop over the index
BestMatch(query_vec, vectors) ==
    BestLoop(query_vec, vectors, 1, [num |-> -1, den |-> 1], NoItem)

(***************************************************************************)
(* Inputs: documents, protocol texts and embedding vectors                 *)
(***************************************************************************)
\* most blocks in one text
MaxBlocks == 2

\* the embedding provider answers a request with a vector of the model's
\* dimension, or with [] when the request fails.  The vectors have norm 1,
\* so that the floating-point cosine is the exact fraction.
EmbedOutcomes == {<<>>, <<1, 0>>, <<0, 1>>, <<-1, 0>>}

H(n) == [i \in 1..n |-> HASH]

\* documents a user can have committed
DocRoadmap ==
    join(<< H(2) \o <<SP, "Roadmap">>, <<"x">>,
            H(3) \o <<SP, "Integration">>, <<"x", SP, "x">> >>)
DocExactFirst ==
    join(<< <<"x">>, H(2) \o <<SP, "A", ":", SP, "B">>, H(3) \o <<SP, "B">>, <<"x">> >>)
DocSuffixFirst ==
    join(<< H(2) \o <<SP, "B">>, <<"x">>, H(2) \o <<SP, "A", ":", SP, "B">> >>)
DocBareHash == join(<< <<HASH>>, <<"x">> >>)
DocTwice ==
    join(<< H(2) \o <<SP, "B">>, <<"x">>, H(2) \o <<SP, "B">>, <<"x", "x">> >>)
Docs == {<<>>, DocRoadmap, DocExactFirst, DocSuffixFirst, DocBareHash, DocTwice}

\* Target-Section values
Targets ==
    { <<"Roadmap">>,
      <<"Context", ":", SP, "Integration">>,
      <<"Feature", ":", SP, "World">>,
      <<"a", ":", SP, "b">>,
      <<"A", SP, "-", ">", SP, "B">>,
      <<"Context">>,
      <<>> }

\* block bodies
BodyMilestone == join(<< H(3) \o <<SP, "Milestone", SP, "3">>, <<"x">> >>)
BodyFeatures ==
    join(<< H(3) \o <<SP, "Feature", SP, "A">>, <<"x">>, <<>>,
            H(3) \o <<SP, "Feature", SP, "B">>, <<"x">> >>)
BodyThree ==
    join(<< H(4) \o <<SP, "Context">>, <<"x">>, H(4) \o <<SP, "A">>, H(4) \o <<SP, "B">> >>)
BodyNested ==
    join(<< <<"x">>, H(2) \o <<SP, "Integration">>, H(3) \o <<SP, "A">>, <<"x">> >>)
BodyHashtag == join(<< H(1) \o <<"x">>, <<"x">> >>)
BodyExisting == join(<< H(3) \o <<SP, "Roadmap">>, <<"x">> >>)
Bodies ==
    { BodyMilestone, BodyFeatures, BodyThree, BodyNested, BodyHashtag,
      BodyExisting, <<"x">>, <<>> }

\* one protocol block as an LLM writes it
Block(target, summary, body) ==
    <<SPEC_START, NL>> \o TARGET_LABEL \o <<SP>> \o target \o <<NL>>
        \o SUMMARY_LABEL \o <<SP>> \o summary \o <<NL>> \o body \o <<NL, SPEC_END>>

\* the same with bullets before the labels and blank lines around
BulletBlock(target, summary, body) ==
    <<SPEC_START, NL, NL, "*", SP>> \o TARGET_LABEL \o <<SP>> \o target \o <<SP, NL>>
        \o <<"*", SP>> \o SUMMARY_LABEL \o <<SP>> \o summary \o <<NL, NL>> \o body
        \o <<NL, SPEC_END>>

OneBlockTexts == {Block(t, <<"s">>, b) : t \in Targets, b \in Bodies}

\* several blocks in one text, with other text around them
SeqBlocks ==
    { <<"x", NL>> \o Block(<<"Roadmap">>, <<"s">>, BodyFeatures),
      BulletBlock(<<"Feature", ":", SP, "World">>, <<"x">>, BodyThree) \o <<NL, "x">>,
      Block(<<"Context">>, <<"s">>, <<>>) }

RECURSIVE BlockSeqs(_)
BlockSeqs(n) ==
    IF n = 1 THEN SeqBlocks
    ELSE {t \o <<NL>> \o b : t \in BlockSeqs(n - 1), b \in SeqBlocks}

ManyBlockTexts ==
    UNION {BlockSeqs(n) : n \in 2..MaxBlocks}
    \cup { BulletBlock(<<"Context">>, <<"s">>, <<"x">>) \o <<NL>>
               \o Block(<<"Context", ":", SP, "Integration">>, <<"x">>, BodyNested),
           Block(<<"Roadmap">>, <<>>, BodyMilestone) \o Block(<<"Context">>, <<"s">>, <<>>) }

\* texts in which the pattern finds nothing
NoProtocolTexts ==
    { <<>>,
      <<"x", NL, H(1)[1], SP, "Roadmap">>,
      <<SPEC_START, NL>> \o TARGET_LABEL \o <<SP, "Roadmap", NL>>
          \o SUMMARY_LABEL \o <<SP, "s", NL, "x", NL>>,
      <<SPEC_START>> \o TARGET_LABEL \o <<SP, "Roadmap", NL>>
          \o SUMMARY_LABEL \o <<SP, "s", NL, "x", NL, SPEC_END>>,
      <<SPEC_START, NL>> \o TARGET_LABEL \o <<SP, "Roadmap", NL, "x", NL, SPEC_END>> }

Texts == OneBlockTexts \cup ManyBlockTexts \cup NoProtocolTexts

(***************************************************************************)
(* State                                                                   *)
(***************************************************************************)
VARIABLES
    doc,              \* content of the document file, "" when it does not exist
    vecFile,          \* content of the embedding index file
    pc,               \* where the process_text call is
    text,             \* req.text
    matches,          \* the groups of the protocol blocks found
    existing_titles,  \* the title -> content snapshot
    bi,               \* index of the block being processed
    chunks,           \* chunks of that block
    ci,               \* index of the chunk being resolved
    results,          \* results
    response,         \* what process_text returned
    syncChunks,       \* sync_document: chunks
    vectors,          \* sync_document: vectors
    log,              \* per result: block, tier, provider use, and whether
                      \* document and index file had moved on (history)
    cur,              \* provider and store use of the chunk being resolved (history)
    nReads,           \* reads of the document store by the call (history)
    readDoc,          \* content sync_document read for the chunk (history)
    other,            \* sync_document of another process_text call
    mdExists,         \* the document file exists
    vc,               \* content of the version control metadata file
    snaps,            \* the snapshot files of the history directory
    recorded,         \* content of the document as of each version (history)
    last,             \* the last document store operation and its answer (history)
    raw_content,      \* chunker: the body given
    split_out,        \* chunker: the chunks returned
    structure,        \* get_structure: the sections returned
    probe_vec,        \* find_best_match: the embedding of the query text
    candidates,       \* find_best_match: the list its rebuild returned
    found_match,      \* find_best_match: what it returned
    sessions,         \* GeminiSessionRepository._sessions
    sending,          \* per session id: a send waiting for the model's reply
    gone,             \* per session id: destroyed and not created since (history)
    sessAns,          \* the last repository call and its answer (history)
    tasks,            \* the task table of main.py: status, result, error
    run,              \* per task: where run_merge_task is, cancel() pending
    taskLog,          \* per task: cancel requested, what the model call did (history)
    taskAns           \* the last answer of cancel_task (history)

\* what a process_text call works on
callVars == <<pc, text, matches, existing_titles, bi, chunks, ci, results,
              response, syncChunks, vectors, log, cur, nReads, readDoc>>
\* the version control files of the document store
vcVars == <<mdExists, vc, snaps, recorded, last>>
\* arguments and results of the functions applied on their own
fnVars == <<raw_content, split_out, structure>>
matchVars == <<probe_vec, candidates, found_match>>

\* what the operations of the other components work on
sessVars == <<sessions, sending, gone, sessAns>>
taskVars == <<tasks, run, taskLog, taskAns>>
restVars == <<matchVars, sessVars, taskVars>>

vars == <<doc, vecFile, callVars, other, vcVars, fnVars, restVars>>

NoFile == [exists |-> FALSE, vectors |-> <<>>]

\* the file is written without the last record
save_vectors_DropsLast(vs) ==
    [exists |-> TRUE, vectors |-> SubSeq(vs, 1, Len(vs) - 1)]

\* _save_vectors: the index file holds the list given
save_vectors(vs) == [exists |-> TRUE, vectors |-> vs]

NoResponse == [status |-> "none", matches |-> <<>>]
\* no provider request, no index written, no probe embedded yet; probe
\* becomes "empty" or "vector" with the provider's answer for the probe
NoUse == [embeds |-> 0, saved |-> FALSE, probe |-> "none"]

\* no process_text call has been made
CallIdle ==
    /\ pc = "idle"
    /\ text = <<>>
    /\ matches = <<>>
    /\ existing_titles = <<>>
    /\ bi = 0
    /\ chunks = <<>>
    /\ ci = 0
    /\ results = <<>>
    /\ response = NoResponse
    /\ syncChunks = <<>>
    /\ vectors = <<>>
    /\ log = <<>>
    /\ cur = NoUse
    /\ nReads = 0
    /\ readDoc = <<>>

\* get_document: "" when the file does not exist
get_document == IF mdExists THEN doc ELSE <<>>

(***************************************************************************)
(* process_text                                                            *)
(***************************************************************************)
\* the chunks of block k: match.group(3).strip() split along the headers
BlockChunks(ms, k) == SplitChunks(strip(ms[k].g3))

\* the loop over the blocks stops before the last block
NextBlock_SkipLast(ms, k) == IF k >= Len(ms) THEN 0 ELSE k

\* the first block from k on that has a chunk to resolve, 0 when the loop
\* over the blocks is over
RECURSIVE NextBlock(_, _)
NextBlock(ms, k) ==
    IF k > Len(ms) THEN 0
    ELSE IF BlockChunks(ms, k) # <<>> THEN k
    ELSE NextBlock(ms, k + 1)

target_section_intent == strip(matches[bi].g1)
change_summary == strip(matches[bi].g2)
chunk == chunks[ci]

\* tiers 1 to 3 would decide the current chunk otherwise on the document as
\* it is stored now than on the snapshot
Drift ==
    ResolveStructural(chunk, target_section_intent,
                      TitleDict(get_structure(get_document), <<>>))
        # ResolveStructural(chunk, target_section_intent, existing_titles)

\* results.append({...}) for the current chunk, then the next iteration of
\* the loops; after the last chunk of the last block the call returns
AppendResult(section_title, original_text, tier, outcome, index) ==
    LET res == Append(results, [section |-> section_title,
                                original_text |-> original_text,
                                new_text |-> chunk,
                                summary |-> change_summary])
        nb == NextBlock(matches, bi + 1)
    IN /\ results' = res
       /\ log' = Append(log, [block |-> bi, tier |-> tier, outcome |-> outcome,
                              index |-> index, use |-> cur',
                              drift |-> Drift, stale |-> vecFile.vectors # vectors])
       /\ IF ci < Len(chunks)
          THEN /\ ci' = ci + 1
               /\ pc' = "resolve"
               /\ UNCHANGED <<bi, chunks, response>>
          ELSE IF nb > 0
          THEN /\ bi' = nb
               /\ chunks' = BlockChunks(matches, nb)
               /\ ci' = 1
               /\ pc' = "resolve"
               /\ UNCHANGED response
          ELSE /\ pc' = "done"
               /\ response' = [status |-> "success", matches |-> res]
               /\ UNCHANGED <<bi, chunks, ci>>

\* the check for "no match" is missing
NoProtocol_Never(ms) == FALSE

\* "if not matches"
NoProtocol(ms) == ms = <<>>

\* POST /api/process: the protocol is parsed; without a block the call
\* answers an error, else it reads the structure of the document and
\* enters the loops
ProcessText(t) ==
    /\ pc = "idle"
    /\ text' = t
    /\ matches' = finditer(t, 1)
    /\ results' = <<>>
    /\ log' = <<>>
    /\ cur' = NoUse
    /\ syncChunks' = <<>>
    /\ vectors' = <<>>
    /\ IF NoProtocol(matches')
       THEN /\ pc' = "done"
            /\ response' = [status |-> "error", matches |-> <<>>]
            /\ nReads' = 0
            /\ UNCHANGED <<existing_titles, bi, chunks, ci>>
       ELSE /\ existing_titles' = TitleDict(get_structure(get_document), <<>>)
            /\ nReads' = 1
            /\ LET nb == NextBlock(matches', 1)
               IN IF nb > 0
                  THEN /\ bi' = nb
                       /\ chunks' = BlockChunks(matches', nb)
                       /\ ci' = 1
                       /\ pc' = "resolve"
                       /\ response' = NoResponse
                  ELSE /\ pc' = "done"
                       /\ response' = [status |-> "success", matches |-> <<>>]
                       /\ UNCHANGED <<bi, chunks, ci>>
    /\ readDoc' = <<>>
    /\ UNCHANGED <<doc, vecFile, other, vcVars, fnVars, restVars>>

\* one iteration of "for chunk in chunks" up to the first await: tiers 1
\* to 3, and for tier 4 the start of find_best_match, where sync_document
\* reads the document and splits it
ResolveChunkWith(titles) ==
    /\ pc = "resolve"
    /\ LET r == ResolveStructural(chunk, target_section_intent, titles)
       IN IF r.tier < 4
          THEN /\ cur' = NoUse
               /\ AppendResult(r.section, r.original_text, r.tier, "structural", 0)
               /\ UNCHANGED <<syncChunks, vectors, nReads, readDoc>>
          ELSE /\ nReads' = nReads + 1
               /\ readDoc' = get_document
               /\ IF get_document = <<>>
                  THEN \* sync_document returns None, find_best_match None
                       /\ cur' = NoUse
                       /\ syncChunks' = <<>>
                       /\ vectors' = <<>>
                       /\ AppendResult(UnmatchedTitle(chunk, target_section_intent),
                                       NO_MATCH, 4, "none", 0)
                  ELSE /\ syncChunks' = SyncChunks(get_document)
                       /\ vectors' = <<>>
                       /\ pc' = "embed_section"
                       /\ cur' = NoUse
                       /\ UNCHANGED <<results, log, bi, chunks, ci, response>>
    /\ UNCHANGED <<doc, vecFile, text, matches, existing_titles, other, vcVars,
                   fnVars, restVars>>

\* the structure is read again for every chunk
ResolveChunk_Reread == ResolveChunkWith(TitleDict(get_structure(get_document), <<>>))

\* the tiers work on the snapshot taken at the start of the call
ResolveChunk == ResolveChunkWith(existing_titles)

\* the provider answers the embedding request of the next section of
\* sync_document; after the last one the index file is written
EmbedSection(vec) ==
    /\ pc = "embed_section"
    /\ LET k == Len(vectors) + 1
           vs == Append(vectors, [header |-> syncChunks[k].header,
                                  text |-> syncChunks[k].text,
                                  vector |-> vec])
       IN /\ vectors' = vs
          /\ IF k = Len(syncChunks)
             THEN /\ vecFile' = save_vectors(vs)
                  /\ cur' = [cur EXCEPT !.embeds = cur.embeds + 1, !.saved = TRUE]
                  /\ pc' = "embed_query"
             ELSE /\ cur' = [cur EXCEPT !.embeds = cur.embeds + 1]
                  /\ UNCHANGED <<vecFile, pc>>
    /\ UNCHANGED <<doc, text, matches, existing_titles, bi, chunks, ci, results,
                   response, syncChunks, log, nReads, readDoc, other, vcVars,
                   fnVars, restVars>>

\* the index file as _load_vectors reads it, instead of the rebuilt list
QueryVectors_FromFile == vecFile.vectors

\* the list find_best_match scores: what its sync_document call returned
QueryVectors == vectors

\* the provider answers the embedding request of the probe; find_best_match
\* returns or raises, and process_text goes on up to its next await
EmbedQuery(query_vec) ==
    /\ pc = "embed_query"
    /\ cur' = [cur EXCEPT !.embeds = cur.embeds + 1,
                          !.probe = IF query_vec = <<>> THEN "empty" ELSE "vector"]
    /\ LET r == BestMatch(query_vec, QueryVectors)
       IN IF query_vec = <<>>
          THEN AppendResult(UnmatchedTitle(chunk, target_section_intent), NO_MATCH,
                            4, "none", Len(QueryVectors))
          ELSE IF r.raised
          THEN /\ pc' = "raised"
               /\ UNCHANGED <<results, log, bi, chunks, ci, response>>
          ELSE IF ~r.best_match.found
          THEN AppendResult(UnmatchedTitle(chunk, target_section_intent), NO_MATCH,
                            4, "none", Len(QueryVectors))
          ELSE AppendResult(r.best_match.item.header, r.best_match.item.text,
                            4, "match", Len(QueryVectors))
    /\ UNCHANGED <<doc, vecFile, text, matches, existing_titles, syncChunks,
                   vectors, nReads, readDoc, other, vcVars, fnVars, restVars>>

(***************************************************************************)
(* Document store: DocumentManager and its version control                 *)
(***************************************************************************)
\* most versions a document gets
MaxVersions == 3

Versions == 0..MaxVersions

\* the default content init_document writes
DEFAULT_CONTENT ==
    join(<< H(1) \o <<SP, "Document", SP, "Title">>, <<>>,
            H(2) \o <<SP, "Lexicon">>, <<>>,
            H(2) \o <<SP, "Context", ",", SP, "Aim", SP, "&", SP, "Integration">>, <<>>,
            H(3) \o <<SP, "Context">>, <<>>,
            H(3) \o <<SP, "Aim">>, <<>>,
            H(3) \o <<SP, "Integration">>, <<>>,
            H(2) \o <<SP, "Features">>, <<>>,
            H(3) \o <<SP, "Feature", SP, "1">>, <<>>,
            H(4) \o <<SP, "Context", ",", SP, "Aim", SP, "&", SP, "Integration">>, <<>>,
            H(4) \o <<SP, "Constraints">>, <<>>,
            H(4) \o <<SP, "User", SP, "Stories">>, <<>>,
            H(4) \o <<SP, "Technical", SP, "Requirements">>, <<>>,
            H(4) \o <<SP, "API">>, <<>>,
            H(4) \o <<SP, "Data", SP, "Layer">>, <<>>,
            H(4) \o <<SP, "Validation">>, <<>>,
            H(4) \o <<SP, "Dependencies">>, <<>>,
            H(4) \o <<SP, "Other", SP, "Notes">>, <<>>,
            H(2) \o <<SP, "Roadmap">>, <<>>,
            H(3) \o <<SP, "Milestone", SP, "1">>, <<>>,
            H(4) \o <<SP, "Content">>, <<>>,
            H(4) \o <<SP, "Validation">>, <<>>, <<>> >>)

\* contents a caller saves
Contents == {<<>>, <<"x">>}

\* triggers a caller of save_document gives
Triggers == {"manual_edit", "section_merge"}

\* no metadata file: get_vc_data answers version 0 and no entry
NoVc == [exists |-> FALSE, current_version |-> 0, versions |-> <<>>]

\* no such snapshot file
NoSnapshot == <<"<no file>">>
NoSnaps == [v \in Versions |-> NoSnapshot]

NoOp == [op |-> "none"]

\* the entry that is appended carries the number of the old version
increment_version_NumbersOld(vcd, sn, current_content, trigger) ==
    LET old_version == vcd.current_version
        new_version == old_version + 1
    IN [vc |-> [exists |-> TRUE,
                current_version |-> new_version,
                versions |-> Append(vcd.versions,
                                    [version |-> old_version, trigger |-> trigger])],
        snaps |-> IF current_content # <<>>
                  THEN [sn EXCEPT ![old_version] = current_content]
                  ELSE sn]

\* _increment_version on the metadata vcd and the snapshots sn while the
\* document holds current_content: the snapshot of the old version is
\* written when the content is not empty, and the entry of the new version
\* is appended
increment_version(vcd, sn, current_content, trigger) ==
    LET old_version == vcd.current_version
        new_version == old_version + 1
    IN [vc |-> [exists |-> TRUE,
                current_version |-> new_version,
                versions |-> Append(vcd.versions,
                                    [version |-> new_version, trigger |-> trigger])],
        snaps |-> IF current_content # <<>>
                  THEN [sn EXCEPT ![old_version] = current_content]
                  ELSE sn]

\* init_document(name, reset)
InitDocument(reset) ==
    /\ IF reset \/ ~mdExists
       THEN /\ doc' = DEFAULT_CONTENT
            /\ mdExists' = TRUE
            /\ vecFile' = [exists |-> TRUE, vectors |-> <<>>]
            /\ vc' = [exists |-> TRUE, current_version |-> 1,
                      versions |-> << [version |-> 1, trigger |-> "init"] >>]
            /\ snaps' = [snaps EXCEPT ![1] = DEFAULT_CONTENT]
            /\ recorded' = [NoSnaps EXCEPT ![1] = DEFAULT_CONTENT]
            /\ last' = [op |-> "init_document", created |-> TRUE]
       ELSE /\ last' = [op |-> "init_document", created |-> FALSE]
            /\ UNCHANGED <<doc, mdExists, vecFile, vc, snaps, recorded>>
    /\ UNCHANGED <<callVars, other, fnVars, restVars>>

\* the version is incremented whether or not the content differs
SaveDocument_AlwaysIncrements(content, trigger) ==
    /\ mdExists => vc.current_version < MaxVersions
    /\ IF mdExists
       THEN LET inc == increment_version(vc, snaps, get_document, trigger)
            IN /\ vc' = inc.vc
               /\ snaps' = inc.snaps
               /\ recorded' = [recorded EXCEPT ![inc.vc.current_version] = content]
       ELSE UNCHANGED <<vc, snaps, recorded>>
    /\ doc' = content
    /\ mdExists' = TRUE
    /\ last' = [op |-> "save_document", trigger |-> trigger]
    /\ UNCHANGED <<vecFile, callVars, other, fnVars, restVars>>

\* save_document(name, content, trigger)
SaveDocument(content, trigger) ==
    /\ (mdExists /\ doc # content) => vc.current_version < MaxVersions
    /\ IF mdExists /\ doc # content
       THEN LET inc == increment_version(vc, snaps, get_document, trigger)
            IN /\ vc' = inc.vc
               /\ snaps' = inc.snaps
               /\ recorded' = [recorded EXCEPT ![inc.vc.current_version] = content]
       ELSE UNCHANGED <<vc, snaps, recorded>>
    /\ doc' = content
    /\ mdExists' = TRUE
    /\ last' = [op |-> "save_document", trigger |-> trigger]
    /\ UNCHANGED <<vecFile, callVars, other, fnVars, restVars>>

\* save_document_simple(name, content), the save of POST /api/commit
SaveDocumentSimple(content) ==
    /\ doc' = content
    /\ mdExists' = TRUE
    /\ last' = [op |-> "save_document_simple"]
    /\ UNCHANGED <<vecFile, vc, snaps, recorded, callVars, other, fnVars, restVars>>

\* complete_merge_validation(name)
CompleteMergeValidation ==
    /\ vc.current_version < MaxVersions
    /\ LET current_content == get_document
           inc == increment_version(vc, snaps, get_document, "merge_complete")
       IN /\ vc' = inc.vc
          /\ snaps' = [inc.snaps EXCEPT ![inc.vc.current_version] = current_content]
          /\ recorded' = [recorded EXCEPT ![inc.vc.current_version] = current_content]
    /\ last' = [op |-> "complete_merge_validation"]
    /\ UNCHANGED <<doc, mdExists, vecFile, callVars, other, fnVars, restVars>>

\* the snapshot file of a version, NoSnapshot when it does not exist
Snapshot(version) == IF version \in Versions THEN snaps[version] ELSE NoSnapshot

\* rollback_to_version(name, version); ok is what it returns
RollbackToVersion(version) ==
    /\ Snapshot(version) \notin {NoSnapshot, get_document} =>
           vc.current_version < MaxVersions
    /\ IF Snapshot(version) = NoSnapshot
       THEN /\ last' = [op |-> "rollback_to_version", version |-> version, ok |-> FALSE]
            /\ UNCHANGED <<doc, mdExists, vc, snaps, recorded>>
       ELSE LET content == Snapshot(version)
                old_content == IF mdExists THEN doc ELSE <<>>
            IN /\ last' = [op |-> "rollback_to_version", version |-> version,
                           ok |-> TRUE]
               /\ IF old_content # content
                  THEN LET inc == increment_version(vc, snaps, get_document, "rollback")
                       IN /\ vc' = inc.vc
                          /\ doc' = content
                          /\ mdExists' = TRUE
                          /\ snaps' = [inc.snaps EXCEPT
                                          ![inc.vc.current_version] = content]
                          /\ recorded' = [recorded EXCEPT
                                             ![inc.vc.current_version] = content]
                  ELSE UNCHANGED <<doc, mdExists, vc, snaps, recorded>>
    /\ UNCHANGED <<vecFile, callVars, other, fnVars, restVars>>

(***************************************************************************)
(* Requests served while a process_text call is suspended                  *)
(***************************************************************************)
\* the call is at an await, or not running: requests are served on one
\* event loop, so another handler only runs there
Suspended == pc # "resolve"

NoOther == [pc |-> "idle", chunks |-> <<>>]

\* POST /api/commit of another request
Commit(content) ==
    /\ Suspended
    /\ SaveDocumentSimple(content)

\* another process_text call reaches its semantic query: its sync_document
\* reads the document and splits it
OtherSyncStart ==
    /\ Suspended
    /\ other.pc = "idle"
    /\ get_document # <<>>
    /\ other' = [pc |-> "embedding", chunks |-> SyncChunks(get_document)]
    /\ UNCHANGED <<doc, vecFile, callVars, vcVars, fnVars, restVars>>

\* the provider has answered the requests of that call with the vectors
\* vecs, and its sync_document writes the index file
OtherSyncSave(vecs) ==
    /\ Suspended
    /\ other.pc = "embedding"
    /\ vecFile' = save_vectors([k \in 1..Len(other.chunks) |->
                                    [header |-> other.chunks[k].header,
                                     text |-> other.chunks[k].text,
                                     vector |-> vecs[k]]])
    /\ other' = NoOther
    /\ UNCHANGED <<doc, callVars, vcVars, fnVars, restVars>>

(***************************************************************************)
(* The chunker and get_structure on their own                              *)
(***************************************************************************)
NotSplit == [done |-> FALSE, chunks |-> <<>>]
NoStructure == [done |-> FALSE, sections |-> <<>>]

\* most lines of a body or document given to them
MaxLines == 4

LineSet ==
    { <<"x">>, <<>>, H(1) \o <<SP, "A">>, H(2) \o <<SP, "B">>, H(3) \o <<SP, "A">>,
      H(2) \o <<"x">> }

LineSeqs == UNION {[1..n -> LineSet] : n \in 1..MaxLines}

\* the chunking of one block body: raw_content is stripped, then split
SplitBody ==
    /\ ~split_out.done
    /\ split_out' = [done |-> TRUE, chunks |-> SplitChunks(raw_content)]
    /\ UNCHANGED <<doc, vecFile, callVars, other, vcVars, restVars,
                 raw_content, structure>>

\* GET /api/structure
GetStructure ==
    /\ ~structure.done
    /\ structure' = [done |-> TRUE, sections |-> get_structure(get_document)]
    /\ UNCHANGED <<doc, vecFile, callVars, other, vcVars, restVars,
                 raw_content, split_out>>

(***************************************************************************)
(* Specifications                                                          *)
(***************************************************************************)
\* no version control files, no other request, no function applied
StoreIdle ==
    /\ mdExists = TRUE
    /\ vc = NoVc
    /\ snaps = NoSnaps
    /\ recorded = NoSnaps
    /\ last = NoOp

\* most records in the list find_best_match scores
MaxIndex == 3

\* embeddings the provider answers with; [] when a request failed
MatchVecs == {<<>>, <<1, 0>>, <<0, 1>>, <<-1, 0>>, <<2, 0>>, <<1, 1>>}

\* the lists of records sync_document can return: record k has a text of
\* k symbols
CandidateSeqs ==
    UNION {{[k \in 1..n |-> [header |-> <<"A">>, text |-> [i \in 1..k |-> "x"],
                              vector |-> vs[k]]] : vs \in [1..n -> MatchVecs]} :
           n \in 0..MaxIndex}

NoMatchYet == [done |-> FALSE, raised |-> FALSE, best_match |-> NoItem]

\* find_best_match after its sync_document call has returned vecs and
\* the provider has answered the probe with query_vec
find_best_match(vecs, query_vec) ==
    IF vecs = <<>> \/ query_vec = <<>>
    THEN [raised |-> FALSE, best_match |-> NoItem]
    ELSE BestMatch(query_vec, vecs)

\* one call of find_best_match
FindBestMatch ==
    /\ ~found_match.done
    /\ LET r == find_best_match(candidates, probe_vec)
       IN found_match' = [done |-> TRUE, raised |-> r.raised,
                          best_match |-> r.best_match]
    /\ UNCHANGED <<doc, vecFile, callVars, other, vcVars, fnVars, probe_vec,
                   candidates, sessVars, taskVars>>

MatchIdle ==
    /\ probe_vec = <<>>
    /\ candidates = <<>>
    /\ found_match = NoMatchYet

(***************************************************************************)
(* Chat sessions: GeminiSessionRepository                                  *)
(***************************************************************************)
\* most exchanges of one session
MaxExchanges == 2

SessionIds == {"s1", "s2"}

\* no entry under the id; an entry has its exchange counter and is idle
\* once it has not been used for SESSION_IDLE_MINUTES
NoSession == [present |-> FALSE, exchange_count |-> 0, idle |-> FALSE]
NewSession == [present |-> TRUE, exchange_count |-> 0, idle |-> FALSE]

\* no send is waiting; a waiting send holds the entry it looked up, which
\* is attached while the repository still holds that same entry
NoSend == [waiting |-> FALSE, attached |-> FALSE]

\* a send that waits for an entry which has left the repository
Detached(snd) == [snd EXCEPT !.attached = FALSE]

\* the entry stays in the repository
sessions_pop_Keeps(sess, session_id) == sess

\* self._sessions.pop(session_id, None)
sessions_pop(sess, session_id) == [sess EXCEPT ![session_id] = NoSession]

\* create(session_id, ...): raises when the API key is not set, else stores
\* a new entry under the id, replacing one that is there
Create(session_id, has_key) ==
    /\ IF has_key
       THEN /\ sessions' = [sessions EXCEPT ![session_id] = NewSession]
            /\ sending' = [sending EXCEPT ![session_id] = Detached(@)]
            /\ gone' = [gone EXCEPT ![session_id] = FALSE]
       ELSE UNCHANGED <<sessions, sending, gone>>
    /\ sessAns' = [op |-> "create", id |-> session_id, found |-> has_key]
    /\ UNCHANGED <<doc, vecFile, callVars, other, vcVars, fnVars, matchVars,
                   taskVars>>

\* send(session_id, message) up to its await: KeyError when there is no
\* entry, else the message goes to the model
SendStart(session_id) ==
    /\ ~sending[session_id].waiting
    /\ sessions[session_id].exchange_count < MaxExchanges
    /\ sending' = IF sessions[session_id].present
                  THEN [sending EXCEPT ![session_id] =
                            [waiting |-> TRUE, attached |-> TRUE]]
                  ELSE sending
    /\ sessAns' = [op |-> "send", id |-> session_id,
                   found |-> sessions[session_id].present]
    /\ UNCHANGED <<sessions, gone>>
    /\ UNCHANGED <<doc, vecFile, callVars, other, vcVars, fnVars, matchVars,
                   taskVars>>

\* the model call of a send returns or raises; when it returns, the
\* counters of the entry the send holds are bumped, whether or not the
\* reply can be parsed
SendFinish(session_id, outcome) ==
    /\ sending[session_id].waiting
    /\ sending' = [sending EXCEPT ![session_id] = NoSend]
    /\ sessions' = IF outcome # "api_error" /\ sending[session_id].attached
                   THEN [sessions EXCEPT
                            ![session_id].exchange_count = @ + 1,
                            ![session_id].idle = FALSE]
                   ELSE sessions
    /\ sessAns' = [op |-> "send_done", id |-> session_id, found |-> outcome = "parsed"]
    /\ UNCHANGED gone
    /\ UNCHANGED <<doc, vecFile, callVars, other, vcVars, fnVars, matchVars,
                   taskVars>>

\* destroy(session_id): answers whether the entry existed
Destroy(session_id) ==
    /\ sessions' = sessions_pop(sessions, session_id)
    /\ sending' = [sending EXCEPT ![session_id] = Detached(@)]
    /\ gone' = [gone EXCEPT ![session_id] = TRUE]
    /\ sessAns' = [op |-> "destroy", id |-> session_id,
                   found |-> sessions[session_id].present]
    /\ UNCHANGED <<doc, vecFile, callVars, other, vcVars, fnVars, matchVars,
                   taskVars>>

\* info(session_id): the metadata of the entry, or None
Info(session_id) ==
    /\ sessAns' = [op |-> "info", id |-> session_id,
                   found |-> sessions[session_id].present]
    /\ UNCHANGED <<sessions, sending, gone>>
    /\ UNCHANGED <<doc, vecFile, callVars, other, vcVars, fnVars, matchVars,
                   taskVars>>

\* time passes: an entry has not been used for SESSION_IDLE_MINUTES
BecomeIdle(session_id) ==
    /\ sessions[session_id].present
    /\ ~sessions[session_id].idle
    /\ sessions' = [sessions EXCEPT ![session_id].idle = TRUE]
    /\ sessAns' = [op |-> "none", id |-> session_id, found |-> FALSE]
    /\ UNCHANGED <<sending, gone>>
    /\ UNCHANGED <<doc, vecFile, callVars, other, vcVars, fnVars, matchVars,
                   taskVars>>

\* cleanup_idle(): the idle entries are removed
CleanupIdle ==
    /\ \E sid \in SessionIds : sessions[sid].present /\ sessions[sid].idle
    /\ sessions' = [sid \in SessionIds |->
                       IF sessions[sid].idle THEN NoSession ELSE sessions[sid]]
    /\ sending' = [sid \in SessionIds |->
                      IF sessions[sid].idle THEN Detached(sending[sid])
                      ELSE sending[sid]]
    /\ sessAns' = [op |-> "cleanup_idle", id |-> "", found |-> TRUE]
    /\ UNCHANGED gone
    /\ UNCHANGED <<doc, vecFile, callVars, other, vcVars, fnVars, matchVars,
                   taskVars>>

SessIdle ==
    /\ sessions = [sid \in SessionIds |-> NoSession]
    /\ sending = [sid \in SessionIds |-> NoSend]
    /\ gone = [sid \in SessionIds |-> FALSE]
    /\ sessAns = [op |-> "none", id |-> "", found |-> FALSE]

(***************************************************************************)
(* Merge tasks: start_diff_task, run_merge_task, cancel_task               *)
(***************************************************************************)
TaskIds == {"t1", "t2"}

ERROR_MERGING == "Error merging content:"

\* what the call of the model in generate_merge can do: answer a text, a
\* null or a value that is no text, or raise
Failures == {"TimeoutException", "HTTPStatusError", "ConnectError"}
ModelOutcomes == {"text", "null", "not_text"} \cup Failures

\* no such task in the table
NoTask == [status |-> "none", result |-> None, error |-> None]

\* run_merge_task has not been created; cancel is the cancellation that
\* task_obj.cancel() has requested and that is not delivered yet
NotRunning == [at |-> "none", cancel |-> FALSE]

NoTaskLog == [requested |-> FALSE, call |-> "none"]

\* the try of generate_merge has no "except Exception"
CaughtByGenerateMerge_NoGeneric(exc) == exc \in {"TimeoutException", "HTTPStatusError"}

\* "except Exception" catches the cancellation too
CaughtByGenerateMerge_All(exc) == TRUE

\* the except clauses of generate_merge: TimeoutException, HTTPStatusError
\* and Exception, which CancelledError is not
CaughtByGenerateMerge(exc) == exc # "CancelledError"

\* what generate_merge returns when it has caught exc
ErrorText(exc) == <<ERROR_MERGING, exc>>

\* POST /api/diff: the task is created and entered in the table
StartDiffTask(task_id) ==
    /\ tasks[task_id].status = "none"
    /\ tasks' = [tasks EXCEPT ![task_id] =
                     [status |-> "pending", result |-> None, error |-> None]]
    /\ run' = [run EXCEPT ![task_id] = [at |-> "created", cancel |-> FALSE]]
    /\ taskAns' = [op |-> "diff", id |-> task_id, message |-> "task_id"]
    /\ UNCHANGED taskLog
    /\ UNCHANGED <<doc, vecFile, callVars, other, vcVars, fnVars, matchVars, sessVars>>

\* the first step of the task: run_merge_task runs up to the await in
\* generate_merge; a task cancelled before its first step never enters
\* the coroutine
RunStart(task_id) ==
    /\ run[task_id].at = "created"
    /\ run' = [run EXCEPT ![task_id] =
                   IF run[task_id].cancel THEN [at |-> "done", cancel |-> FALSE]
                   ELSE [at |-> "awaiting", cancel |-> FALSE]]
    /\ UNCHANGED <<tasks, taskLog, taskAns>>
    /\ UNCHANGED <<doc, vecFile, callVars, other, vcVars, fnVars, matchVars, sessVars>>

\* run_merge_task after generate_merge has returned merged_text
Completed(task, merged_text) == [task EXCEPT !.result = merged_text, !.status = "completed"]

\* run_merge_task after an exception has reached its "except Exception"
Failed(task, exc) == [task EXCEPT !.status = "failed", !.error = <<exc>>]

\* the call of the model ends and the task runs to its end
ModelReturns(task_id, outcome) ==
    /\ run[task_id].at = "awaiting"
    /\ ~run[task_id].cancel
    /\ tasks' = [tasks EXCEPT ![task_id] =
                     CASE outcome = "text" -> Completed(@, <<"merged">>)
                       [] outcome = "null" -> Completed(@, None)
                       [] outcome = "not_text" -> Failed(@, "TypeError")
                       [] OTHER -> IF CaughtByGenerateMerge(outcome)
                                   THEN Completed(@, ErrorText(outcome))
                                   ELSE Failed(@, outcome)]
    /\ run' = [run EXCEPT ![task_id] = [at |-> "done", cancel |-> FALSE]]
    /\ taskLog' = [taskLog EXCEPT ![task_id].call = outcome]
    /\ UNCHANGED taskAns
    /\ UNCHANGED <<doc, vecFile, callVars, other, vcVars, fnVars, matchVars, sessVars>>

\* the cancellation is raised at the await of the task
CancelDelivered(task_id) ==
    /\ run[task_id].at = "awaiting"
    /\ run[task_id].cancel
    /\ tasks' = [tasks EXCEPT ![task_id] =
                     IF CaughtByGenerateMerge("CancelledError")
                     THEN Completed(@, ErrorText("CancelledError"))
                     ELSE [@ EXCEPT !.status = "cancelled"]]
    /\ run' = [run EXCEPT ![task_id] = [at |-> "done", cancel |-> FALSE]]
    /\ taskLog' = [taskLog EXCEPT ![task_id].call = "CancelledError"]
    /\ UNCHANGED taskAns
    /\ UNCHANGED <<doc, vecFile, callVars, other, vcVars, fnVars, matchVars, sessVars>>

\* POST /api/task/{task_id}/cancel
CancelTask(task_id) ==
    /\ IF tasks[task_id].status = "none"
       THEN /\ taskAns' = [op |-> "cancel", id |-> task_id, message |-> "Task not found"]
            /\ UNCHANGED <<tasks, run, taskLog>>
       ELSE IF tasks[task_id].status \in {"pending", "running"}
       THEN /\ run' = [run EXCEPT ![task_id].cancel = run[task_id].at # "done"]
            /\ tasks' = [tasks EXCEPT ![task_id].status = "cancelled"]
            /\ taskLog' = [taskLog EXCEPT ![task_id].requested = TRUE]
            /\ taskAns' = [op |-> "cancel", id |-> task_id,
                           message |-> "Cancellation requested"]
       ELSE /\ taskAns' = [op |-> "cancel", id |-> task_id,
                           message |-> "Task already completed or cancelled"]
            /\ UNCHANGED <<tasks, run, taskLog>>
    /\ UNCHANGED <<doc, vecFile, callVars, other, vcVars, fnVars, matchVars, sessVars>>

TaskIdle ==
    /\ tasks = [t \in TaskIds |-> NoTask]
    /\ run = [t \in TaskIds |-> NotRunning]
    /\ taskLog = [t \in TaskIds |-> NoTaskLog]
    /\ taskAns = [op |-> "none", id |-> "", message |-> ""]

RestIdle == MatchIdle /\ SessIdle /\ TaskIdle

FnIdle ==
    /\ raw_content = <<>>
    /\ split_out = NotSplit
    /\ structure = NoStructure

\* one process_text call on a committed document
Init ==
    /\ doc \in Docs
    /\ vecFile = NoFile
    /\ CallIdle
    /\ other = NoOther
    /\ StoreIdle
    /\ FnIdle
    /\ RestIdle

Next ==
    \/ \E t \in Texts : ProcessText(t)
    \/ ResolveChunk
    \/ \E vec \in EmbedOutcomes : EmbedSection(vec)
    \/ \E vec \in EmbedOutcomes : EmbedQuery(vec)

Spec == Init /\ [][Next]_vars

\* one process_text call, with commits and another call's index rebuild
\* served while it is suspended
ConcDocs == {DocRoadmap, DocSuffixFirst, <<>>}

ConcTexts ==
    { Block(<<"Context">>, <<"s">>, <<"x">>),
      Block(<<"Context">>, <<"s">>, <<"x">>) \o <<NL>>
          \o Block(<<"a", ":", SP, "b">>, <<"s">>, <<"x">>),
      Block(<<"Context">>, <<"s">>, <<"x">>) \o <<NL>>
          \o Block(<<"Feature", ":", SP, "World">>, <<"s">>, BodyExisting) }

InitConc ==
    /\ doc \in ConcDocs
    /\ vecFile = NoFile
    /\ CallIdle
    /\ other = NoOther
    /\ StoreIdle
    /\ FnIdle
    /\ RestIdle

NextConc ==
    \/ \E t \in ConcTexts : ProcessText(t)
    \/ ResolveChunk
    \/ \E vec \in EmbedOutcomes : EmbedSection(vec)
    \/ \E vec \in EmbedOutcomes : EmbedQuery(vec)
    \/ \E content \in ConcDocs : Commit(content)
    \/ OtherSyncStart
    \/ \E vecs \in [1..Len(other.chunks) -> {<<>>, <<1, 0>>}] : OtherSyncSave(vecs)

SpecConc == InitConc /\ [][NextConc]_vars

\* the operations of the document store on one document
InitStore ==
    /\ doc = <<>>
    /\ mdExists = FALSE
    /\ vecFile = NoFile
    /\ vc = NoVc
    /\ snaps = NoSnaps
    /\ recorded = NoSnaps
    /\ last = NoOp
    /\ CallIdle
    /\ other = NoOther
    /\ FnIdle
    /\ RestIdle

NextStore ==
    \/ \E reset \in BOOLEAN : InitDocument(reset)
    \/ \E content \in Contents, trigger \in Triggers : SaveDocument(content, trigger)
    \/ \E content \in Contents : SaveDocumentSimple(content)
    \/ CompleteMergeValidation
    \/ \E version \in 0..(MaxVersions + 1) : RollbackToVersion(version)

SpecStore == InitStore /\ [][NextStore]_vars

\* the chunker on the bodies of up to MaxLines lines
InitChunker ==
    /\ raw_content \in {strip(join(ls)) : ls \in LineSeqs}
    /\ split_out = NotSplit
    /\ structure = NoStructure
    /\ doc = <<>>
    /\ vecFile = NoFile
    /\ CallIdle
    /\ other = NoOther
    /\ StoreIdle
    /\ RestIdle

SpecChunker == InitChunker /\ [][SplitBody]_vars

\* get_structure on the documents of up to MaxLines lines
InitStructure ==
    /\ doc \in {join(ls) : ls \in LineSeqs}
    /\ structure = NoStructure
    /\ raw_content = <<>>
    /\ split_out = NotSplit
    /\ vecFile = NoFile
    /\ CallIdle
    /\ other = NoOther
    /\ StoreIdle
    /\ RestIdle

SpecStructure == InitStructure /\ [][GetStructure]_vars

\* find_best_match on the lists of up to MaxIndex records
InitMatch ==
    /\ probe_vec \in MatchVecs
    /\ candidates \in CandidateSeqs
    /\ found_match = NoMatchYet
    /\ SessIdle
    /\ TaskIdle
    /\ doc = <<>>
    /\ vecFile = NoFile
    /\ CallIdle
    /\ other = NoOther
    /\ StoreIdle
    /\ FnIdle

SpecMatch == InitMatch /\ [][FindBestMatch]_vars

\* the session repository under requests for two session ids
NextSessions ==
    \/ \E sid \in SessionIds, has_key \in BOOLEAN : Create(sid, has_key)
    \/ \E sid \in SessionIds : SendStart(sid)
    \/ \E sid \in SessionIds, outcome \in {"parsed", "unparsable", "api_error"} :
           SendFinish(sid, outcome)
    \/ \E sid \in SessionIds : Destroy(sid)
    \/ \E sid \in SessionIds : Info(sid)
    \/ \E sid \in SessionIds : BecomeIdle(sid)
    \/ CleanupIdle

InitSessions ==
    /\ doc = <<>>
    /\ vecFile = NoFile
    /\ CallIdle
    /\ other = NoOther
    /\ StoreIdle
    /\ FnIdle
    /\ RestIdle

SpecSessions == InitSessions /\ [][NextSessions]_vars

\* merge tasks and the requests that cancel them, on one event loop
NextTasks ==
    \/ \E t \in TaskIds : StartDiffTask(t)
    \/ \E t \in TaskIds : RunStart(t)
    \/ \E t \in TaskIds, outcome \in ModelOutcomes : ModelReturns(t, outcome)
    \/ \E t \in TaskIds : CancelDelivered(t)
    \/ \E t \in TaskIds : CancelTask(t)

InitTasks ==
    /\ doc = <<>>
    /\ vecFile = NoFile
    /\ CallIdle
    /\ other = NoOther
    /\ StoreIdle
    /\ FnIdle
    /\ RestIdle

SpecTasks == InitTasks /\ [][NextTasks]_vars

(***************************************************************************)
(* Properties                                                              *)
(***************************************************************************)
\* the Target-Section value of the block that result k belongs to
IntentOf(k) == strip(matches[log[k].block].g1)

\* the first line of a chunk
FirstLine(c) == split(c)[1]

\* the (new_text, summary) pairs process_text owes for the blocks from k on:
\* for each block, in order, one pair per chunk of its body, in order
RECURSIVE OwedFrom(_, _)
OwedFrom(ms, k) ==
    IF k > Len(ms) THEN <<>>
    ELSE LET cs == SplitChunks(strip(ms[k].g3))
         IN [j \in 1..Len(cs) |-> [new_text |-> cs[j], summary |-> strip(ms[k].g2)]]
            \o OwedFrom(ms, k + 1)

Returned == [k \in 1..Len(response.matches) |->
                [new_text |-> response.matches[k].new_text,
                 summary |-> response.matches[k].summary]]

\* C1: when at least one protocol block is found, the results returned are,
\* in block order and chunk order, exactly one per chunk of the hierarchical
\* splitting, each with the chunk's text and its block's Change-Summary; a
\* block written with target t, summary "s" and body b gives the chunks of b
\* with summary "s".
C1_OneResultPerChunk ==
    (pc = "done" /\ matches # <<>>) =>
        /\ response.status = "success"
        /\ Returned = OwedFrom(matches, 1)
        /\ \A t \in Targets, b \in Bodies :
               text = Block(t, <<"s">>, b) =>
                   Returned = [j \in 1..Len(SplitChunks(b)) |->
                                  [new_text |-> SplitChunks(b)[j], summary |-> <<"s">>]]

\* C1 witness: a call on two blocks has returned its results, more than one
\* for one of the blocks
C1_Witness ==
    /\ pc = "done"
    /\ Len(matches) = 2
    /\ Len(response.matches) >= 4

\* C2: a text without protocol block is answered with status "error" and no
\* result, never with a success, and the call reads neither the document
\* store nor the provider and leaves document and index file alone.
C2_NoProtocolIsError ==
    /\ [](response.status = "success" => finditer(text, 1) # <<>>)
    /\ [][(pc = "idle" /\ pc' # "idle" /\ finditer(text', 1) = <<>>) =>
              /\ pc' = "done"
              /\ response' = [status |-> "error", matches |-> <<>>]
              /\ nReads' = 0
              /\ cur'.embeds = 0
              /\ vecFile' = vecFile
              /\ doc' = doc]_vars

\* C2 witness: a text with a start marker and labels but no end marker has
\* been answered with an error
C2_Witness ==
    /\ pc = "done"
    /\ response.status = "error"
    /\ \E i \in 1..Len(text) : text[i] = SPEC_START

\* the title of a header line
TitleOf(line) == strip(lstrip(strip(line), {HASH}))

\* some snapshot title equals the title t, case-insensitively
TitleExists(t) ==
    \E k \in 1..Len(existing_titles) : lower(existing_titles[k].title) = lower(t)

\* the chunk c opens with a header that names a new milestone or feature
SelfHeaderOverride(c) ==
    /\ HeaderLevel(FirstLine(c)) > 0
    /\ \/ startswith(lower(TitleOf(FirstLine(c))), <<"milestone">>)
       \/ startswith(lower(TitleOf(FirstLine(c))), <<"feature">>)
    /\ ~TitleExists(TitleOf(FirstLine(c)))

\* C3: a chunk whose first line is a header with a title that begins with
\* "milestone" or "feature" and equals no snapshot title resolves to that
\* title as a new section, whatever the target says.
C3_SelfHeaderOverride ==
    \A k \in 1..Len(results) :
        SelfHeaderOverride(results[k].new_text) =>
            /\ results[k].section = TitleOf(FirstLine(results[k].new_text))
            /\ results[k].original_text = NEW_SECTION

\* C3 witness: the override has resolved a chunk whose target names an
\* existing section exactly
C3_Witness ==
    \E k \in 1..Len(results) :
        /\ SelfHeaderOverride(results[k].new_text)
        /\ TitleExists(IntentOf(k))
        /\ results[k].original_text = NEW_SECTION

\* the target ends with ": " + t or "-> " + t
SuffixOf(intent, t) ==
    \/ endswith(lower(intent), <<":", SP>> \o lower(t))
    \/ endswith(lower(intent), <<"-", ">", SP>> \o lower(t))

\* the first line of c starts with a hash and its title names a new
\* milestone or feature: the chunk is claimed by the override
Claimed(c) ==
    /\ startswith(strip(FirstLine(c)), <<HASH>>)
    /\ TitleOf(FirstLine(c)) # <<>>
    /\ \/ startswith(lower(TitleOf(FirstLine(c))), <<"milestone">>)
       \/ startswith(lower(TitleOf(FirstLine(c))), <<"feature">>)
    /\ ~TitleExists(TitleOf(FirstLine(c)))

\* result k names a section of the snapshot and carries its content
ResolvedToExisting(k) ==
    \E j \in 1..Len(existing_titles) :
        /\ results[k].section = existing_titles[j].title
        /\ results[k].original_text = existing_titles[j].content

\* C4: when the target ends with ": " + T or "-> " + T for a snapshot title
\* T and the chunk is not claimed by the override, the result names an
\* existing section with its content, never a sentinel.
C4_SuffixMatch ==
    \A k \in 1..Len(results) :
        ( /\ \E j \in 1..Len(existing_titles) :
                 SuffixOf(IntentOf(k), existing_titles[j].title)
          /\ ~Claimed(results[k].new_text) ) =>
            /\ ResolvedToExisting(k)
            /\ results[k].original_text \notin {NEW_SECTION, NO_MATCH}

\* C4 witness: a target that only suffix-matches has been resolved to the
\* section
C4_Witness ==
    \E k \in 1..Len(results) :
        /\ ~TitleExists(IntentOf(k))
        /\ \E j \in 1..Len(existing_titles) :
               /\ SuffixOf(IntentOf(k), existing_titles[j].title)
               /\ results[k].section = existing_titles[j].title
        /\ ~Claimed(results[k].new_text)

\* C5: in the structural path match, when a snapshot title equals the target
\* case-insensitively, the result names that title and carries its content,
\* whatever suffix matches the snapshot holds and wherever they are.
C5_ExactMatchWins ==
    \A k \in 1..Len(results) :
        (TitleExists(IntentOf(k)) /\ ~Claimed(results[k].new_text)) =>
            /\ lower(results[k].section) = lower(IntentOf(k))
            /\ ResolvedToExisting(k)

\* C5 failing state: the snapshot holds a section with the empty title, the
\* target is empty, and the chunk went to the semantic query and came back
\* with the "no matching section" sentinel instead of the section's content
C5_DroppedExactMatch ==
    \E k \in 1..Len(results) :
        /\ IntentOf(k) = <<>>
        /\ TitleExists(<<>>)
        /\ ~Claimed(results[k].new_text)
        /\ log[k].tier = 4
        /\ results[k].original_text = NO_MATCH

\* the target says "feature" or "milestone" and then a colon or a space
ExplicitPrefix(intent) ==
    \E w \in {"feature", "milestone"}, c \in {":", SP} :
        startswith(lower(intent), <<w, c>>)

\* a snapshot title equals the target or is a suffix of it
StructuralMatch(intent) ==
    \/ TitleExists(intent)
    \/ \E j \in 1..Len(existing_titles) : SuffixOf(intent, existing_titles[j].title)

WorldEngineText == Block(<<"Feature", ":", SP, "World">>, <<"s">>, BodyThree)

\* C6: a chunk of an explicit-new target that no snapshot title matches and
\* that the override does not claim resolves to the target itself as a new
\* section; the three sub-section chunks of "Feature: World" all do.
C6_ExplicitNew ==
    /\ \A k \in 1..Len(results) :
           ( /\ ExplicitPrefix(IntentOf(k))
             /\ ~StructuralMatch(IntentOf(k))
             /\ ~Claimed(results[k].new_text) ) =>
               /\ results[k].section = IntentOf(k)
               /\ results[k].original_text = NEW_SECTION
    /\ (pc = "done" /\ text = WorldEngineText) =>
           /\ Len(response.matches) = 3
           /\ \A k \in 1..3 :
                  /\ response.matches[k].section = <<"Feature", ":", SP, "World">>
                  /\ response.matches[k].original_text = NEW_SECTION

\* C6 witness: the call on the three chunks of "Feature: World" has returned
C6_Witness ==
    /\ pc = "done"
    /\ text = WorldEngineText
    /\ Len(response.matches) = 3
    /\ existing_titles # <<>>

\* tiers 1 to 3 have an answer for the chunk c of a block with that target
TiersOneToThree(c, intent) ==
    \/ Claimed(c)
    \/ Truthy(BestStructureMatch(intent, existing_titles))
    \/ ExplicitPrefix(intent)

\* C7: a chunk that tier 1, 2 or 3 resolves causes no provider request and
\* no index rebuild, and the call waits for the provider only for a chunk
\* for which the three tiers have failed.
C7_TierOrder ==
    /\ \A k \in 1..Len(results) :
           TiersOneToThree(results[k].new_text, IntentOf(k)) =>
               /\ log[k].tier < 4
               /\ log[k].use.embeds = 0
               /\ ~log[k].use.saved
    /\ (pc \in {"embed_section", "embed_query", "raised"}) =>
           ~TiersOneToThree(chunk, target_section_intent)

\* C7 witness: one call has resolved a chunk by the explicit-new check and
\* another chunk by a semantic query that asked the provider
C7_Witness ==
    \E k, j \in 1..Len(results) :
        /\ log[k].tier = 3
        /\ log[j].tier = 4
        /\ log[j].use.embeds > 0

C9_NeverRaises == pc # "raised"

\* C9 failing state: the provider failed for one section of the document and
\* answered for another and for the probe, and the query raised
C9_RaisedOnMixedIndex ==
    /\ pc = "raised"
    /\ cur.probe = "vector"
    /\ \E k \in 1..Len(vectors) : vectors[k].vector = <<>>
    /\ \E k \in 1..Len(vectors) : vectors[k].vector # <<>>

\* C10: find_best_match returns nothing and does not raise when the index is
\* empty, when the probe vector is empty, and when every candidate vector is
\* empty while the probe vector is not.
C10_NothingWithoutRaising ==
    /\ \A k \in 1..Len(results) :
           (log[k].tier = 4 /\ (log[k].index = 0 \/ log[k].use.probe = "empty")) =>
               log[k].outcome = "none"
    /\ (pc = "raised") =>
           ~( /\ cur.probe = "vector"
              /\ \A k \in 1..Len(vectors) : vectors[k].vector = <<>> )

\* C10 failing state: the provider failed for every section of the document
\* and answered for the probe, and the query raised
C10_RaisedOnEmptyCandidates ==
    /\ pc = "raised"
    /\ vectors # <<>>
    /\ cur.probe = "vector"
    /\ \A k \in 1..Len(vectors) : vectors[k].vector = <<>>

\* C11: a block whose body is empty contributes no result, and no result
\* has an empty new_text.
C11_EmptyBodySkipped ==
    \A k \in 1..Len(results) :
        /\ strip(matches[log[k].block].g3) # <<>>
        /\ results[k].new_text # <<>>

\* C11 failing state: the call has returned a result with an empty new_text
\* for a block with an empty body
C11_EmptyChunkReturned ==
    /\ pc = "done"
    /\ \E k \in 1..Len(response.matches) :
           /\ response.matches[k].new_text = <<>>
           /\ strip(matches[log[k].block].g3) = <<>>

\* the header levels of the lines of a chunk, 0 for a line that is no header
LevelsOf(c) == [i \in 1..Len(split(c)) |-> HeaderLevel(split(c)[i])]

SiblingBody ==
    join(<< H(3) \o <<SP, "A">>, <<"x">>, H(3) \o <<SP, "A">>, <<"x">> >>)

\* C12: the chunks are the body cut before header lines, a cut being made
\* before a header exactly when the buffer is not empty and holds no header
\* or a first header of the same or a deeper level: a chunk that begins with
\* a header of level L holds no other header of level L or less, a chunk of
\* introductory text holds no header, every later chunk begins with a header
\* that its predecessor could not keep, and two sibling sections give two
\* chunks in order.
C12_HierarchicalSplit ==
    split_out.done =>
        LET cs == split_out.chunks
        IN /\ join(cs) = raw_content
           /\ \A j \in 1..Len(cs) :
                  LET lv == LevelsOf(cs[j])
                  IN /\ \A i \in 2..Len(lv) : lv[i] = 0 \/ (lv[1] > 0 /\ lv[i] > lv[1])
                     /\ j > 1 =>
                            /\ lv[1] > 0
                            /\ \/ LevelsOf(cs[j - 1])[1] = 0
                               \/ lv[1] <= LevelsOf(cs[j - 1])[1]
           /\ raw_content = SiblingBody =>
                  cs = << join(<< H(3) \o <<SP, "A">>, <<"x">> >>),
                          join(<< H(3) \o <<SP, "A">>, <<"x">> >>) >>

\* C12 witness: a body was split in several chunks, one of which keeps a
\* deeper header with its parent
C12_Witness ==
    /\ split_out.done
    /\ Len(split_out.chunks) >= 2
    /\ \E j \in 1..Len(split_out.chunks) :
           \E i \in 2..Len(LevelsOf(split_out.chunks[j])) :
               LevelsOf(split_out.chunks[j])[i] > LevelsOf(split_out.chunks[j])[1]
                   /\ LevelsOf(split_out.chunks[j])[1] > 0

\* C13: the chunker applied to a chunk it has produced gives that chunk and
\* nothing else.
C13_SplitIdempotent ==
    split_out.done =>
        \A j \in 1..Len(split_out.chunks) :
            SplitChunks(split_out.chunks[j]) = <<split_out.chunks[j]>>

\* C13 witness: the chunker has produced several chunks, one of them with a
\* header inside
C13_Witness ==
    /\ split_out.done
    /\ Len(split_out.chunks) >= 3
    /\ \E j \in 1..Len(split_out.chunks) :
           \E i \in 2..Len(LevelsOf(split_out.chunks[j])) :
               LevelsOf(split_out.chunks[j])[i] > 0

\* a step leaves the document, the version metadata and the snapshots alone
StoreUntouched ==
    /\ doc' = doc
    /\ mdExists' = mdExists
    /\ vc' = vc
    /\ snaps' = snaps

\* C14: no step of a process_text call changes the stored document, the
\* version metadata, the history snapshots or the embedding index file.
C14_NoSideEffects == [][StoreUntouched /\ vecFile' = vecFile]_vars

\* C14, amended: no step of a process_text call changes the stored document,
\* the version metadata or the history snapshots; the index file is written
\* only by the step that ends the rebuild of a semantic query, with one
\* record per section of the document the rebuild read, and never by a chunk
\* that tier 1, 2 or 3 resolves or by a call that finds no block.
C14_OnlyIndexWritten ==
    [][/\ StoreUntouched
       /\ vecFile' # vecFile =>
              /\ pc = "embed_section" /\ pc' = "embed_query"
              /\ vecFile'.exists
              /\ vecFile'.vectors = vectors'
              /\ Len(vectors') = Len(SyncChunks(readDoc))
              /\ \A k \in 1..Len(vectors') :
                     /\ vectors'[k].header = SyncChunks(readDoc)[k].header
                     /\ vectors'[k].text = SyncChunks(readDoc)[k].text
       /\ (pc = "embed_section" /\ pc' = "embed_query") =>
              (vecFile'.exists /\ vecFile'.vectors = vectors')
       /\ (Len(log') > Len(log) /\ log'[Len(log')].tier < 4) => vecFile' = vecFile]_vars

\* C14 witness: a call that resolved one chunk by a structural tier and
\* another by a semantic query has returned, and the index file exists
C14_Witness ==
    /\ pc = "done"
    /\ vecFile.exists
    /\ vecFile.vectors # <<>>
    /\ \E k, j \in 1..Len(log) : log[k].tier < 4 /\ log[j].tier = 4

\* C15: the snapshot is taken from the document when the call starts and is
\* not changed afterwards, and tiers 1 to 3 decide every chunk on it,
\* whatever has been committed to the document since.
C15_OneSnapshot ==
    [][/\ (pc = "idle" /\ pc' # "idle" /\ matches' # <<>>) =>
              existing_titles' = TitleDict(get_structure(get_document), <<>>)
       /\ pc # "idle" => existing_titles' = existing_titles
       /\ pc = "resolve" =>
              LET r == ResolveStructural(chunk, target_section_intent, existing_titles)
                  k == Len(results')
              IN IF r.tier < 4
                 THEN /\ k = Len(results) + 1
                      /\ log'[k].tier = r.tier
                      /\ results'[k].section = r.section
                      /\ results'[k].original_text = r.original_text
                 ELSE pc' = "embed_section" \/ log'[k].tier = 4]_vars

\* C15 witness: a later chunk of a call was resolved by tiers 1 to 3 on the
\* snapshot after a commit had changed the document so that the tiers would
\* have decided otherwise on it
C15_Witness ==
    \E k \in 2..Len(results) :
        /\ log[k - 1].tier = 4
        /\ log[k].tier < 4
        /\ log[k].drift

\* C16: every semantic query rebuilds the index, asking the provider for
\* each section of the document its rebuild read, and the record it returns
\* is a section of that document, whatever the index file holds.
C16_AnswersFromRebuild ==
    [][(Len(log') > Len(log) /\ log'[Len(log')].tier = 4) =>
           LET k == Len(log')
               rebuilt == SyncChunks(readDoc')
           IN /\ readDoc' # <<>> =>
                     /\ log'[k].use.saved
                     /\ log'[k].use.embeds = Len(rebuilt) + 1
                     /\ log'[k].index = Len(rebuilt)
              /\ log'[k].outcome = "match" =>
                     \E j \in 1..Len(rebuilt) :
                         /\ results'[k].section = rebuilt[j].header
                         /\ results'[k].original_text = rebuilt[j].text]_vars

\* C16 witness: a query returned a section of the document it read while the
\* index file held the records another call had written over its own
C16_Witness ==
    \E k \in 1..Len(results) :
        /\ log[k].outcome = "match"
        /\ log[k].stale

(***************************************************************************)
(* get_structure, stated on the lines of the document                      *)
(***************************************************************************)
DocLines == split(get_document)

\* line i is a header line: stripped, it starts with '#'
IsHeader(i) == startswith(strip(DocLines[i]), <<HASH>>)

\* the level of line i: the length of its first word, 0 for a line that is
\* no header (the introduction)
LineLevel(i) == IF IsHeader(i) THEN FirstWordLen(strip(DocLines[i])) ELSE 0

\* the first lines of the sections: every header line, and line 1
SectionStarts == {i \in 1..Len(DocLines) : i = 1 \/ IsHeader(i)}

\* the first line of the k-th section
StartOf(k) ==
    CHOOSE i \in SectionStarts : Cardinality({j \in SectionStarts : j < i}) = k - 1

\* the last line before the first line after i that belongs to stops
LastBefore(i, stops) ==
    IF \E j \in stops : j > i
    THEN (CHOOSE j \in stops : j > i /\ \A h \in stops : h > i => j <= h) - 1
    ELSE Len(DocLines)

\* the section that starts at line i runs to the next header of any level
EndFlat(i) == LastBefore(i, SectionStarts)

\* the section that starts at header line i runs to the next header of its
\* level or above; the introduction runs to the first header
EndNested(i) ==
    IF IsHeader(i)
    THEN LastBefore(i, {j \in SectionStarts : IsHeader(j) /\ LineLevel(j) <= LineLevel(i)})
    ELSE EndFlat(i)

\* section k of the result is the section that starts at the k-th start line
\* and ends at line end
IsSection(sec, k, end) ==
    LET i == StartOf(k)
    IN /\ sec.level = LineLevel(i)
       /\ sec.title = IF IsHeader(i) THEN strip(lstrip(strip(DocLines[i]), {HASH}))
                      ELSE <<"Introduction">>
       /\ sec.content = join(SubSeq(DocLines, i, end))

InitialVc ==
    [exists |-> TRUE, current_version |-> 1,
     versions |-> << [version |-> 1, trigger |-> "init"] >>]

\* the entries of the metadata are numbered 1, 2, ... up to current_version
Numbered(vcd) ==
    /\ vcd.current_version = Len(vcd.versions)
    /\ \A i \in 1..Len(vcd.versions) : vcd.versions[i].version = i

\* C18: an init_document that creates or resets the document leaves
\* current_version 1 and the single entry of trigger "init"; and after any
\* sequence of operations current_version is the number of entries and the
\* entries are numbered 1, 2, ..., current_version in order.
C18_VersionNumbering ==
    /\ (last.op = "init_document" /\ last.created) => vc = InitialVc
    /\ Numbered(vc)

\* C18 witness: a document that was initialised, saved and rolled back is at
\* version MaxVersions
C18_Witness ==
    /\ vc.current_version = MaxVersions
    /\ vc.versions[1].trigger = "init"
    /\ vc.versions[2].trigger \in Triggers
    /\ \E i \in 3..MaxVersions : vc.versions[i].trigger = "rollback"

\* the document has been initialised: its file and its metadata exist
Initialised == mdExists /\ vc.exists

\* C19: on an initialised document save_document increments current_version
\* by one and appends one entry with its trigger exactly when the content it
\* saves differs from the stored content, and leaves the metadata unchanged
\* otherwise; save_document_simple always leaves the metadata unchanged.
C19_SaveVersions ==
    [][/\ (Initialised /\ last'.op = "save_document") =>
              IF doc' # doc
              THEN /\ vc'.current_version = vc.current_version + 1
                   /\ vc'.versions =
                          Append(vc.versions, [version |-> vc.current_version + 1,
                                               trigger |-> last'.trigger])
              ELSE vc' = vc
       /\ last'.op = "save_document_simple" => vc' = vc]_vars

\* C19 witness: save_document has just saved content equal to the stored
\* content of an initialised document that earlier saves had brought to
\* version 2 or more
C19_Witness ==
    /\ last.op = "save_document"
    /\ vc.current_version >= 2
    /\ vc.versions[1].trigger = "init"
    /\ vc.versions[vc.current_version].trigger \in Triggers
    /\ vc.versions[vc.current_version].trigger # last.trigger

\* C20: after rollback_to_version(v) has returned True for a recorded
\* version v, the content of the document is the content it had when
\* version v was recorded.
C20_RollbackRestores ==
    [][(/\ last'.op = "rollback_to_version"
        /\ last'.ok
        /\ recorded[last'.version] # NoSnapshot) =>
           doc' = recorded[last'.version]]_vars

\* C20 failing state: rollback to version 1 of an initialised document has
\* returned True and the document does not hold the default content that
\* version 1 recorded
C20_RolledBackToOtherContent ==
    /\ last.op = "rollback_to_version"
    /\ last.ok
    /\ last.version = 1
    /\ vc.versions # <<>>
    /\ vc.versions[1].trigger = "init"
    /\ recorded[1] = DEFAULT_CONTENT
    /\ doc # DEFAULT_CONTENT

\* the version numbers of the entries of the metadata
Listed(vcd) == {vcd.versions[i].version : i \in 1..Len(vcd.versions)}

\* C21: every rollback_to_version that returns True appends one entry of
\* trigger "rollback" and increases current_version by exactly one, also
\* when it follows another rollback.
C21_RollbackAddsVersion ==
    [][(last'.op = "rollback_to_version" /\ last'.ok) =>
           /\ vc'.current_version = vc.current_version + 1
           /\ vc'.versions =
                  Append(vc.versions, [version |-> vc.current_version + 1,
                                       trigger |-> "rollback"])]_vars

\* C21 failing state: rollback_to_version has returned True on a document
\* whose metadata still holds the entry of init_document only
C21_RollbackWithoutEntry ==
    /\ last.op = "rollback_to_version"
    /\ last.ok
    /\ vc = InitialVc

\* C22: rollback_to_version for a version number that is not among the
\* entries of the metadata returns False and leaves the content of the
\* document and the metadata unchanged.
C22_UnlistedVersionRefused ==
    [][(last'.op = "rollback_to_version" /\ last'.version \notin Listed(vc)) =>
           /\ ~last'.ok
           /\ doc' = doc
           /\ vc' = vc]_vars

\* C22 failing state: after a reset, a rollback has returned True for the
\* version number that its own entry then took, so the number was not
\* listed when it was called
C22_RolledBackToUnlisted ==
    /\ last.op = "rollback_to_version"
    /\ last.ok
    /\ vc.current_version >= 2
    /\ last.version = vc.current_version
    /\ vc.versions[1].trigger = "init"
    /\ vc.versions[vc.current_version].trigger = "rollback"

\* C28: every version from 1 to current_version has a snapshot, so
\* rollback_to_version returns True for it.
C28_ListedVersionsHaveSnapshots ==
    \A v \in 1..vc.current_version : Snapshot(v) # NoSnapshot

\* C28 failing state: rollback_to_version has returned False for a version
\* that is listed in the metadata of an initialised document
C28_ListedVersionRefused ==
    /\ last.op = "rollback_to_version"
    /\ ~last.ok
    /\ last.version \in Listed(vc)
    /\ vc.versions[1].trigger = "init"

(***************************************************************************)
(* find_best_match on its own                                              *)
(***************************************************************************)
\* the call has scored a non-empty list with a non-empty probe, and every
\* record has a non-empty vector
Scored ==
    /\ found_match.done
    /\ candidates # <<>>
    /\ probe_vec # <<>>
    /\ \A k \in 1..Len(candidates) : candidates[k].vector # <<>>

\* the similarity of record k to the probe
Score(k) == cosine_similarity(probe_vec, candidates[k].vector)

\* C24: on a non-empty index, with non-empty vectors for the probe and for
\* every record, find_best_match returns a record, whatever the
\* similarities are: one whose similarity to the probe is the maximum, and
\* the earliest of those.
C24_ReturnsEarliestMaximum ==
    Scored =>
        /\ found_match.best_match.found
        /\ \E j \in 1..Len(candidates) :
               /\ found_match.best_match.item = candidates[j]
               /\ \A k \in 1..Len(candidates) : ~ScoreGreater(Score(k), Score(j))
               /\ \A k \in 1..(j - 1) : ScoreGreater(Score(j), Score(k))

\* C24 failing state: find_best_match has returned None from a list whose
\* records all point away from the probe
C24_NothingFromScoredIndex ==
    /\ Scored
    /\ ~found_match.raised
    /\ ~found_match.best_match.found

(***************************************************************************)
(* The chunker as a partition of the body                                  *)
(***************************************************************************)
\* the lines of the chunks cs, in order
RECURSIVE LinesOf(_)
LinesOf(cs) == IF cs = <<>> THEN <<>> ELSE split(Head(cs)) \o LinesOf(Tail(cs))

\* C26: the chunks of a body, joined in order with a newline, are the
\* trimmed body; the lines of the chunks, in order, are the lines of the
\* body, each once; and every chunk after the first begins with a header
\* line.
C26_ChunksPartitionBody ==
    split_out.done =>
        /\ join(split_out.chunks) = raw_content
        /\ LinesOf(split_out.chunks) = split(raw_content)
        /\ \A j \in 2..Len(split_out.chunks) :
               HeaderLevel(split(split_out.chunks[j])[1]) > 0

\* C26 witness: a body with text before its first header and blank lines
\* was split in three chunks or more
C26_Witness ==
    /\ split_out.done
    /\ Len(split_out.chunks) >= 3
    /\ HeaderLevel(split(split_out.chunks[1])[1]) = 0
    /\ \E i \in 1..Len(split(raw_content)) : split(raw_content)[i] = <<>>

(***************************************************************************)
(* Sections of the same title                                              *)
(***************************************************************************)
\* the sections of the document the call took its snapshot from
DocSections == get_structure(get_document)

\* the content of the last section of the document that has this title
LastContentOf(title) ==
    LET j == CHOOSE i \in 1..Len(DocSections) :
                 /\ DocSections[i].title = title
                 /\ \A h \in (i + 1)..Len(DocSections) : DocSections[h].title # title
    IN DocSections[j].content

\* C25: the snapshot holds one content per title: every title of the
\* document is in it exactly once, also a title that several sections
\* have, and a structural match on a title gives as original_text the
\* content of the last section of that title in the document.
C25_LastSectionOfTitle ==
    /\ \A i, j \in 1..Len(existing_titles) :
           existing_titles[i].title = existing_titles[j].title => i = j
    /\ (pc # "idle" /\ matches # <<>>) =>
           \A i \in 1..Len(DocSections) :
               \E j \in 1..Len(existing_titles) :
                   existing_titles[j].title = DocSections[i].title
    /\ \A k \in 1..Len(results) :
           log[k].tier = 2 =>
               /\ \E i \in 1..Len(DocSections) : DocSections[i].title = results[k].section
               /\ results[k].original_text = LastContentOf(results[k].section)

\* C25 witness: a chunk was matched structurally to a title that two
\* sections of the document have, with different contents
C25_Witness ==
    \E k \in 1..Len(results) :
        /\ log[k].tier = 2
        /\ \E i, j \in 1..Len(DocSections) :
               /\ i < j
               /\ DocSections[i].title = results[k].section
               /\ DocSections[j].title = results[k].section
               /\ DocSections[i].content # DocSections[j].content

(***************************************************************************)
(* Results flagged as new                                                  *)
(***************************************************************************)
\* C27: a result whose original_text is one of the two sentinels has a
\* section title that no title of the snapshot equals, case-insensitively.
C27_NewNamesNoExistingSection ==
    \A k \in 1..Len(results) :
        results[k].original_text \in {NEW_SECTION, NO_MATCH} =>
            ~TitleExists(results[k].section)

\* C27 failing state: the semantic query found nothing for a chunk that
\* opens with the header of a section of the snapshot, and the result
\* carries the "no matching section" sentinel under that title
C27_SentinelOnExistingTitle ==
    \E k \in 1..Len(results) :
        /\ log[k].tier = 4
        /\ log[k].outcome = "none"
        /\ results[k].original_text = NO_MATCH
        /\ HeaderLevel(FirstLine(results[k].new_text)) > 0
        /\ results[k].section = TitleOf(FirstLine(results[k].new_text))
        /\ results[k].section # <<>>
        /\ TitleExists(results[k].section)

(***************************************************************************)
(* Chat sessions                                                           *)
(***************************************************************************)
\* C23: destroy on an id that has no entry, because it was never created,
\* was removed as idle or was destroyed before, answers False and changes
\* nothing; destroy changes the entry of no other id; and from the return
\* of destroy until the id is created again the id has no entry, so that
\* every send and every info that starts then answers not found.
C23_DestroyIdempotent ==
    [][/\ sessAns'.op = "destroy" =>
              /\ ~sessions[sessAns'.id].present =>
                     (~sessAns'.found /\ sessions' = sessions)
              /\ \A sid \in SessionIds \ {sessAns'.id} : sessions'[sid] = sessions[sid]
       /\ \A sid \in SessionIds : gone'[sid] => ~sessions'[sid].present
       /\ (sessAns'.op \in {"send", "info"} /\ gone[sessAns'.id]) =>
              ~sessAns'.found]_vars

\* C23 witness: an info for a destroyed id has answered not found while the
\* send that was waiting for the model when the id was destroyed is still
\* waiting, and the session of the other id is in use
C23_Witness ==
    \E sid \in SessionIds, o \in SessionIds :
        /\ sid # o
        /\ sessAns = [op |-> "info", id |-> sid, found |-> FALSE]
        /\ gone[sid]
        /\ sending[sid].waiting
        /\ sessions[o].present
        /\ sessions[o].exchange_count >= 1

(***************************************************************************)
(* Merge tasks                                                             *)
(***************************************************************************)
FinalStatuses == {"completed", "failed", "cancelled"}

\* C29: the status of a task starts as "pending" and changes only from
\* "pending" to "completed", "failed" or "cancelled", which it then keeps;
\* once cancel_task has answered "Cancellation requested" the status is
\* never "completed" and the result stays empty; and a completed task keeps
\* its status and its result when it is cancelled.
C29_StatusesAbsorbing ==
    [][\A t \in TaskIds :
           /\ tasks[t].status = "none" => tasks'[t] \in {NoTask, [NoTask EXCEPT !.status = "pending"]}
           /\ tasks[t].status = "pending" =>
                  tasks'[t].status \in {"pending"} \cup FinalStatuses
           /\ tasks[t].status \in FinalStatuses => tasks'[t].status = tasks[t].status
           /\ taskLog'[t].requested =>
                  (tasks'[t].status = "cancelled" /\ tasks'[t].result = None)
           /\ tasks[t].status = "completed" => tasks'[t] = tasks[t]]_vars

\* C29 witness: the cancellation of a task was requested while it waited
\* for the model and has been delivered, and the cancellation of a task
\* that had completed has been answered without a change
C29_Witness ==
    \E t \in TaskIds, o \in TaskIds :
        /\ taskLog[t].requested
        /\ taskLog[t].call = "CancelledError"
        /\ run[t].at = "done"
        /\ tasks[t].status = "cancelled"
        /\ tasks[o] = [status |-> "completed", result |-> <<"merged">>, error |-> None]
        /\ taskAns = [op |-> "cancel", id |-> o,
                      message |-> "Task already completed or cancelled"]

\* C30: when the call of the model fails by a timeout, an HTTP error status
\* or a connection error, the task does not become "failed": it ends as
\* "completed" with a result that starts with "Error merging content:".
C30_ModelFailureCompletes ==
    [][\A t \in TaskIds :
           (taskLog'[t].call \in Failures /\ taskLog[t].call = "none") =>
               /\ tasks'[t].status = "completed"
               /\ startswith(tasks'[t].result, <<ERROR_MERGING>>)
               /\ tasks'[t].error = None]_vars

\* C30 witness: the call of the model failed by a connection error for one
\* task and by a timeout for the other, and both tasks are completed
C30_Witness ==
    \E t \in TaskIds, o \in TaskIds :
        /\ taskLog[t].call = "ConnectError"
        /\ taskLog[o].call = "TimeoutException"
        /\ tasks[t].status = "completed"
        /\ tasks[o].status = "completed"
        /\ tasks[t].result = ErrorText("ConnectError")

====
